---- MODULE Spec2Model ----
(***************************************************************************)
(* QuMail: quantum key lifecycle and multi-level encryption.               *)
(*                                                                         *)
(* Part 1 models the key pool of the mock key manager server               *)
(* (src/unnamed/part_002): an in-memory Map of key records, and the two    *)
(* synchronous request handlers that hand keys out and mark them used.     *)
(***************************************************************************)
EXTENDS Integers, Sequences, FiniteSets, TLC

(***************************************************************************)
(* Bounds of the model.                                                    *)
(***************************************************************************)
\* initializeKeys creates 10 encryption keys and 20 OTP keys; the model
\* keeps the two loops and scales their counts down.
NumEncKeys == 2
NumOtpKeys == 3
\* Number of clients whose single-key OTP requests race for the pool.
NumClients == 5
\* Largest "number" query parameter a request carries.
MaxNumber == 4
\* Requests handled in one run of the pool specification.
MaxRequests == 3
\* email-server.js creates 10 keys at start-up; the model scales it down.
NumInitKeys == 1
\* Date.now() ranges over 0..MaxClock.
MaxClock == 1
\* Requests the key manager of email-server.js handles in one run.
MaxKmeRequests == 2
\* Email accounts the email service is asked about.
NumAccounts == 3
\* Emails the store holds at most.
MaxEmails == 2
\* Payloads the client makes in one run.
MaxPayloads == 1
MaxOtpPayloads == 2
MaxDecrypts == 1

VARIABLES
    keyDatabase,    \* part_002: Map keyId -> record, in insertion order
    lastRequest,    \* part_002: the request handled last
    lastResponse,   \* part_002: the response sent for it
    requestCount,   \* part_002: requests handled so far
    clientResp,     \* race: per client, the response to its OTP request
    kme,            \* email-server.js key manager: [db, status], the Maps
                    \*   keyDatabase and keyStatus
    now,            \* Date.now(), in milliseconds
    kmeReq,         \* email-server.js key manager: the request handled last
    kmeResp,        \* email-server.js key manager: the response sent last
    kmeCount,       \* email-server.js key manager: requests handled so far
    kmMode,         \* which kmService module the client is built with:
                    \*   "mock" (part_004:8-282) or "remote" (part_004:292-602);
                    \*   "unreachable" is the latter with no key manager
                    \*   answering, so that every request of axios rejects
    saeId,          \* KMService.saeId
    currentSecurityLevel,   \* SecurityService.currentSecurityLevel
    payloads,       \* the payloads encryptData returned, oldest first
    plains,         \* the data each of them was made from
    lastOp,         \* the outcome of the last encryptData / decryptData call
    tampered,       \* the payloads whose ciphertext was altered in transit
    composed,       \* encryptionEngine.js: the email given to encryptEmail
    encryptionResult,   \* what encryptEmail returned
    receivedEmail,  \* the email given to decryptEmail
    decryptionResult,   \* what decryptEmail returned
    console,        \* the errors the engine's last call logged
    decryptCount,   \* calls of decryptEmail so far
    progress,       \* a call of encryptEmail between its awaits: where it
                    \*   stands and the locals it holds
    imapConnections,    \* emailService.js: the account ids in imapConnections
    smtpConnections,    \* emailService.js: the account ids in smtpConnections
    serviceResult,  \* emailService.js: what the last call returned
    sendCall,       \* EmailComposer.jsx: what handleSend gave to sendEmail
    emails,         \* appStore.js: state.emails, per folder the emails in it
    storeOp         \* appStore.js: the action called last

poolVars == <<keyDatabase, lastRequest, lastResponse, requestCount, clientResp>>
kmeVars == <<kme, now, kmeReq, kmeResp, kmeCount>>

secVars == <<kmMode, saeId, currentSecurityLevel, payloads, plains, lastOp,
             tampered>>

engineVars == <<composed, encryptionResult, receivedEmail, decryptionResult, console,
                decryptCount, progress>>

appVars == <<imapConnections, smtpConnections, serviceResult, sendCall, emails,
             storeOp>>

vars == <<poolVars, kmeVars, secVars, engineVars, appVars>>

(***************************************************************************)
(* src/unnamed/part_002: the key database.                                 *)
(* A Map iterates in insertion order, and keys are never deleted, so the   *)
(* database is a sequence of records and a key's id is its position (the   *)
(* code's ids are random UUIDs: unique, with no other structure). The      *)
(* material of key i is the token i: every key has its own material.       *)
(***************************************************************************)
KeySizes == {128, 256, 1024, 2048}

KeyRecord(i, size, type) ==
    [keyId |-> i, key |-> i, keySize |-> size, used |-> FALSE, keyType |-> type]

initializeKeys ==
    [i \in 1..(NumEncKeys + NumOtpKeys) |->
        IF i <= NumEncKeys THEN KeyRecord(i, 256, "encryption")
                           ELSE KeyRecord(i, 1024, "otp")]

\* Array.from(keyDatabase.values()).filter(k => !k.used && k.keyType === t
\*                                              && k.keySize >= size)
\* as the sequence of matching key ids, in Map order.
RECURSIVE FilterFrom(_, _, _, _)
FilterFrom(db, i, type, size) ==
    IF i > Len(db) THEN <<>>
    ELSE LET rest == FilterFrom(db, i + 1, type, size)
         IN  IF ~db[i].used /\ db[i].keyType = type /\ db[i].keySize >= size
             THEN <<i>> \o rest
             ELSE rest

AvailableKeys(db, type, size) == FilterFrom(db, 1, type, size)

NoResponse ==
    [status |-> 0, error |-> "none", available |-> 0, requested |-> 0, keys |-> <<>>]

\* A variant of the handler that marks keys before it compares the counts.
ReserveKeysMarkFirst(db, type, number, size) ==
    LET avail == AvailableKeys(db, type, size)
        n     == IF number < Len(avail) THEN number ELSE Len(avail)
        taken == SubSeq(avail, 1, n)
        marked == [i \in 1..Len(db) |->
                     IF \E j \in 1..n : taken[j] = i
                     THEN [db[i] EXCEPT !.used = TRUE] ELSE db[i]]
    IN  IF Len(avail) < number
        THEN [resp |-> [status |-> 409, error |-> "INSUFFICIENT_KEYS",
                        available |-> Len(avail), requested |-> number,
                        keys |-> <<>>],
              db |-> marked]
        ELSE [resp |-> [status |-> 200, error |-> "none", available |-> 0,
                        requested |-> 0, keys |-> taken],
              db |-> marked]

\* A variant that always hands out the first matching key, used or not.
ReserveKeysNoUsedCheck(db, type, number, size) ==
    LET all == SelectSeq([i \in 1..Len(db) |-> i],
                         LAMBDA i : db[i].keyType = type /\ db[i].keySize >= size)
        n   == IF number < Len(all) THEN number ELSE Len(all)
        taken == SubSeq(all, 1, n)
    IN  IF Len(all) < number
        THEN [resp |-> [status |-> 409, error |-> "INSUFFICIENT_KEYS",
                        available |-> Len(all), requested |-> number,
                        keys |-> <<>>],
              db |-> db]
        ELSE [resp |-> [status |-> 200, error |-> "none", available |-> 0,
                        requested |-> 0, keys |-> taken],
              db |-> [i \in 1..Len(db) |->
                        IF \E j \in 1..n : taken[j] = i
                        THEN [db[i] EXCEPT !.used = TRUE] ELSE db[i]]]

\* A variant whose filter leaves out the comparison of sizes.
ReserveKeysAnySize(db, type, number, size) ==
    LET avail == AvailableKeys(db, type, 0)
        n     == IF number < Len(avail) THEN number ELSE Len(avail)
        taken == SubSeq(avail, 1, n)
    IN  IF Len(avail) < number
        THEN [resp |-> [status |-> 409, error |-> "INSUFFICIENT_KEYS",
                        available |-> Len(avail), requested |-> number,
                        keys |-> <<>>],
              db |-> db]
        ELSE [resp |-> [status |-> 200, error |-> "none", available |-> 0,
                        requested |-> 0, keys |-> taken],
              db |-> [i \in 1..Len(db) |->
                        IF \E j \in 1..n : taken[j] = i
                        THEN [db[i] EXCEPT !.used = TRUE] ELSE db[i]]]

\* The handler body shared, line for line, by GET .../enc_keys and
\* GET .../otp_keys: count the matching keys, refuse with 409 when they are
\* fewer than number, else mark the first number of them used and return them.
ReserveKeys(db, type, number, size) ==
    LET avail == AvailableKeys(db, type, size)
        n     == IF number < Len(avail) THEN number ELSE Len(avail)
        taken == SubSeq(avail, 1, n)
    IN  IF Len(avail) < number
        THEN [resp |-> [status |-> 409, error |-> "INSUFFICIENT_KEYS",
                        available |-> Len(avail), requested |-> number,
                        keys |-> <<>>],
              db |-> db]
        ELSE [resp |-> [status |-> 200, error |-> "none", available |-> 0,
                        requested |-> 0, keys |-> taken],
              db |-> [i \in 1..Len(db) |->
                        IF \E j \in 1..n : taken[j] = i
                        THEN [db[i] EXCEPT !.used = TRUE] ELSE db[i]]]

PoolHandle(type, number, size) ==
    LET r == ReserveKeys(keyDatabase, type, number, size)
    IN  /\ requestCount < MaxRequests
        /\ keyDatabase' = r.db
        /\ lastRequest' = [type |-> type, number |-> number, size |-> size]
        /\ lastResponse' = r.resp
        /\ requestCount' = requestCount + 1
        /\ UNCHANGED <<clientResp, kmeVars, secVars, engineVars, appVars>>

\* GET /api/v1/keys/:slave_sae_id/enc_keys?number=&size=
EncKeysRequest == \E number \in 0..MaxNumber, size \in KeySizes :
    PoolHandle("encryption", number, size)

\* GET /api/v1/keys/:slave_sae_id/otp_keys?number=&size=
OtpKeysRequest == \E number \in 0..MaxNumber, size \in KeySizes :
    PoolHandle("otp", number, size)

PoolInit ==
    /\ keyDatabase = initializeKeys
    /\ lastRequest = [type |-> "none", number |-> 0, size |-> 0]
    /\ lastResponse = NoResponse
    /\ requestCount = 0
    /\ clientResp = [c \in 1..NumClients |-> NoResponse]

PoolNext == EncKeysRequest \/ OtpKeysRequest


(***************************************************************************)
(* The race: NumClients clients each send one request for a single OTP key *)
(* of 256 bits. Express runs each handler to completion (the handlers have *)
(* no await), so the server serves the requests one at a time in an order  *)
(* the network chooses.                                                    *)
(***************************************************************************)

OtpRaceRequest(c) ==
    LET r == ReserveKeys(keyDatabase, "otp", 1, 256)
    IN  /\ clientResp[c].status = 0
        /\ keyDatabase' = r.db
        /\ clientResp' = [clientResp EXCEPT ![c] = r.resp]
        /\ UNCHANGED <<lastRequest, lastResponse, requestCount, kmeVars, secVars,
                       engineVars, appVars>>

RaceNext == \E c \in 1..NumClients : OtpRaceRequest(c)


(***************************************************************************)
(* Text. A string is the sequence of its characters' code points; a byte   *)
(* string is a sequence of numbers in 0..255.                              *)
(***************************************************************************)
\* The character of a base64 digit: A-Z a-z 0-9 + / in that order, and '='
\* for the padding, written as digit 64.
B64Char(v) ==
    IF v < 26 THEN 65 + v
    ELSE IF v < 52 THEN 71 + v
    ELSE IF v < 62 THEN v - 4
    ELSE IF v = 62 THEN 43
    ELSE IF v = 63 THEN 47
    ELSE 61

\* The base64 digit of a character; 64 for '=', 99 for any other character.
B64Value(ch) ==
    IF ch >= 65 /\ ch <= 90 THEN ch - 65
    ELSE IF ch >= 97 /\ ch <= 122 THEN ch - 71
    ELSE IF ch >= 48 /\ ch <= 57 THEN ch + 4
    ELSE IF ch = 43 THEN 62
    ELSE IF ch = 47 THEN 63
    ELSE IF ch = 61 THEN 64
    ELSE 99

\* Buffer.toString("base64") and btoa over a byte string: three bytes make
\* four characters, the last group is padded with '='.
B64Encode(b) ==
    LET n == Len(b)
    IN  [j \in 1..(4 * ((n + 2) \div 3)) |->
            LET g  == (j - 1) \div 4
                r  == (j - 1) % 4
                b1 == b[3 * g + 1]
                b2 == IF 3 * g + 2 <= n THEN b[3 * g + 2] ELSE 0
                b3 == IF 3 * g + 3 <= n THEN b[3 * g + 3] ELSE 0
            IN  B64Char(CASE r = 0 -> b1 \div 4
                          [] r = 1 -> (b1 % 4) * 16 + (b2 \div 16)
                          [] r = 2 -> IF 3 * g + 2 > n THEN 64
                                      ELSE (b2 % 16) * 4 + (b3 \div 64)
                          [] OTHER -> IF 3 * g + 3 > n THEN 64 ELSE b3 % 64)]

\* The bytes of a sequence of base64 digits: four digits make three bytes, a
\* last group of two or three digits makes one or two.
B64Groups(c) ==
    LET n == Len(c)
        tail == IF n % 4 = 0 \/ n % 4 = 1 THEN 0 ELSE (n % 4) - 1
    IN  [j \in 1..(3 * (n \div 4) + tail) |->
            LET g  == (j - 1) \div 3
                r  == (j - 1) % 3
                c1 == c[4 * g + 1]
                c2 == c[4 * g + 2]
                c3 == IF 4 * g + 3 <= n THEN c[4 * g + 3] ELSE 0
                c4 == IF 4 * g + 4 <= n THEN c[4 * g + 4] ELSE 0
            IN  CASE r = 0 -> c1 * 4 + (c2 \div 16)
                  [] r = 1 -> (c2 % 16) * 16 + (c3 \div 4)
                  [] OTHER -> (c3 % 4) * 64 + c4]

\* atob: ASCII whitespace is dropped; when the length is a multiple of four
\* one or two trailing '=' are dropped; text whose length is then 1 mod 4, or
\* that holds a character outside the alphabet, throws InvalidCharacterError.
Atob(text) ==
    LET t0 == SelectSeq(text, LAMBDA x : x # 32)
        c0 == [i \in 1..Len(t0) |-> B64Value(t0[i])]
        n0 == Len(c0)
        cut == IF n0 % 4 = 0 /\ n0 >= 1 /\ c0[n0] = 64
               THEN IF n0 >= 2 /\ c0[n0 - 1] = 64 THEN 2 ELSE 1
               ELSE 0
        c  == SubSeq(c0, 1, n0 - cut)
    IN  IF Len(c) % 4 = 1 \/ \E i \in 1..Len(c) : c[i] > 63
        THEN [ok |-> FALSE, bytes |-> <<>>]
        ELSE [ok |-> TRUE, bytes |-> B64Groups(c)]

(***************************************************************************)
(* src/mock-services/email-server.js, lines 476-784: the ETSI GS QKD 014   *)
(* key manager. keyDatabase and keyStatus are Maps from key id to the key  *)
(* object and to its status; nothing is ever deleted from them.            *)
(*                                                                         *)
(* A key id is a string built from a prefix, Date.now(), an SAE id and an  *)
(* index; it is modelled by the record of those four parts, so two ids are *)
(* equal exactly when the strings are.                                     *)
(***************************************************************************)
SAEs == {"saeA", "saeB"}
NoSae == "-"

KeyId(kind, t, sae, idx) == [kind |-> kind, t |-> t, sae |-> sae, idx |-> idx]

\* An id no handler ever builds, for requests that name an unknown key.
UnknownId == KeyId("X", 0, NoSae, 0)

\* crypto.randomBytes(n): the bytes are random. The model draws one of two
\* outcomes: a pattern gives the first byte and the fill of the rest.
RandomPatterns == {<<1, 255>>, <<255, 1>>}
RandomBytes(p, n) == [i \in 1..n |-> IF i = 1 THEN p[1] ELSE p[2]]

\* One random pattern per key a handler may generate.
RandomTapes == [1..2 -> RandomPatterns]

Put(f, x, v) == [y \in DOMAIN f \cup {x} |-> IF y = x THEN v ELSE f[y]]

\* generateQuantumKey(keyId, size): a fresh random key of size / 8 bytes,
\* stored under keyId (replacing what was stored there) with status
\* "available" in both Maps.
generateQuantumKey(k, keyId, size, t, p) ==
    LET quantumKey ==
            [key_ID |-> keyId,
             key |-> B64Encode(RandomBytes(p, size \div 8)),
             key_size |-> size,
             algorithm_type |-> "QUANTUM",
             timestamp |-> t,
             status |-> "available",
             slave_sae_id |-> NoSae,
             master_sae_id |-> NoSae]
    IN  [k |-> [db |-> Put(k.db, keyId, quantumKey),
                status |-> Put(k.status, keyId, "available")],
         key |-> quantumKey]

RECURSIVE KmeStartFrom(_, _, _)
\* for (let i = 1; i <= 10; i++) generateQuantumKey(`QK_${Date.now()}_${i}`, 256)
KmeStartFrom(k, i, p) ==
    IF i > NumInitKeys THEN k
    ELSE KmeStartFrom(generateQuantumKey(k, KeyId("QK", 0, NoSae, i), 256, 0, p).k,
                      i + 1, p)

Consume(k, keyId) ==
    [db |-> [k.db EXCEPT ![keyId].status = "consumed"],
     status |-> Put(k.status, keyId, "consumed")]

KmeError(code, err) == [code |-> code, error |-> err, keys |-> <<>>]
KmeOk(keys) == [code |-> 200, error |-> "none", keys |-> keys]

\* GET /api/v1/keys/:key_ID?sae_id=
KmeGetKey(k, keyId, sae, isNew, t, p, tag) ==
    IF sae = NoSae
    THEN [k |-> k, resp |-> KmeError(400, "MISSING_SAE_ID")]
    ELSE IF ~isNew
    THEN IF keyId \notin DOMAIN k.db
         THEN [k |-> k, resp |-> KmeError(404, "KEY_NOT_FOUND")]
         ELSE LET k2 == Consume(k, keyId)
              IN  [k |-> k2, resp |-> KmeOk(<<k2.db[keyId]>>)]
    ELSE LET g == generateQuantumKey(k, KeyId("QK", t, NoSae, tag), 256, t, p)
         IN  [k |-> g.k, resp |-> KmeOk(<<g.key>>)]

RECURSIVE KmeLookupAll(_, _, _, _, _)
\* keys.push(keyDatabase.get(id) || generateQuantumKey(id, 256)) for each id
KmeLookupAll(k, ids, i, t, tape) ==
    IF i > Len(ids) THEN k
    ELSE KmeLookupAll(IF ids[i] \in DOMAIN k.db THEN k
                      ELSE generateQuantumKey(k, ids[i], 256, t, tape[i]).k,
                      ids, i + 1, t, tape)

RECURSIVE ConsumeAll(_, _, _)
ConsumeAll(k, ids, i) ==
    IF i > Len(ids) THEN k ELSE ConsumeAll(Consume(k, ids[i]), ids, i + 1)

\* POST /api/v1/keys/:key_ID/with_key_IDs {additional_key_IDs, sae_id}
KmeWithKeyIds(k, keyId, additional, sae, t, tape) ==
    IF sae = NoSae
    THEN [k |-> k, resp |-> KmeError(400, "MISSING_SAE_ID")]
    ELSE LET ids == <<keyId>> \o additional
             k2  == ConsumeAll(KmeLookupAll(k, ids, 1, t, tape), ids, 1)
         IN  [k |-> k2, resp |-> KmeOk([i \in 1..Len(ids) |-> k2.db[ids[i]]])]

RECURSIVE KmeEncLoop(_, _, _, _, _, _, _, _, _)
\* for (i = 0; i < keyCount; i++) { keyId = `ENC_${Date.now()}_${slaveId}_${i}`;
\*   key = generateQuantumKey(keyId, Math.min(size, 256)); ... keys.push(key) }
KmeEncLoop(k, keys, i, keyCount, slaveId, size, master, t, tape) ==
    IF i >= keyCount THEN [k |-> k, keys |-> keys]
    ELSE LET keyId == KeyId("ENC", t, slaveId, i)
             g     == generateQuantumKey(k, keyId, IF size < 256 THEN size ELSE 256,
                                         t, tape[i + 1])
             key   == [g.key EXCEPT !.algorithm_type = "AES",
                                    !.slave_sae_id = slaveId,
                                    !.master_sae_id = master]
             k2    == [g.k EXCEPT !.db[keyId] = key]
         IN  KmeEncLoop(k2, Append(keys, key), i + 1, keyCount, slaveId, size,
                        master, t, tape)

\* POST /api/v1/keys/:slave_SAE_ID/enc_keys {size, master_sae_id}
KmeEncKeys(k, slaveId, size, master, t, tape) ==
    IF master = NoSae
    THEN [k |-> k, resp |-> KmeError(400, "MISSING_MASTER_SAE_ID")]
    ELSE LET keyCount == (size + 255) \div 256
             r == KmeEncLoop(k, <<>>, 0, keyCount, slaveId, size, master, t, tape)
         IN  [k |-> r.k, resp |-> KmeOk(r.keys)]

\* POST /api/v1/keys/:slave_SAE_ID/dec_keys {key_IDs, master_sae_id}
KmeDecKeys(k, keyIds, master, t, tape) ==
    IF master = NoSae
    THEN [k |-> k, resp |-> KmeError(400, "MISSING_MASTER_SAE_ID")]
    ELSE LET k2 == ConsumeAll(KmeLookupAll(k, keyIds, 1, t, tape), keyIds, 1)
         IN  [k |-> k2, resp |-> KmeOk([i \in 1..Len(keyIds) |-> k2.db[keyIds[i]]])]

RECURSIVE KmeGenLoop(_, _, _, _, _, _, _)
\* for (i = 0; i < count; i++) generateQuantumKey(`GEN_${Date.now()}_${i}`, size)
KmeGenLoop(k, keys, i, count, size, t, tape) ==
    IF i >= count THEN [k |-> k, keys |-> keys]
    ELSE LET g == generateQuantumKey(k, KeyId("GEN", t, NoSae, i), size, t, tape[i + 1])
         IN  KmeGenLoop(g.k, Append(keys, g.key), i + 1, count, size, t, tape)

\* POST /api/v1/generate {count, size}
KmeGenerate(k, count, size, t, tape) ==
    LET r == KmeGenLoop(k, <<>>, 0, count, size, t, tape)
    IN  [k |-> r.k, resp |-> KmeOk(r.keys)]

\* GET /api/v1/status: available_keys is keyDatabase.size. The response has
\* no keys and no error.
KmeStatus(k) ==
    [k |-> k,
     resp |-> [code |-> 200, error |-> "none", keys |-> <<>>,
               available_keys |-> Cardinality(DOMAIN k.db)]]

(***************************************************************************)
(* The key manager as a server: one action per endpoint, each the whole    *)
(* handler (the handlers have no await). Date.now() advances between       *)
(* requests, or does not: two requests can arrive within one millisecond.  *)
(***************************************************************************)
\* Key ids a client may name in a request: a stored one, one of an
\* encryption key of this millisecond, or one the server never stored.
IdChoices ==
    DOMAIN kme.db \cup {UnknownId} \cup {KeyId("ENC", now, s, 0) : s \in SAEs}

\* What the model keeps of a request: the endpoint, the SAE id it carries
\* (sae_id or master_sae_id) and the size it asks for, 0 where the endpoint
\* takes none.
KmeRequest(endpoint, sae, size) == [endpoint |-> endpoint, sae |-> sae, size |-> size]

KmeServe(req, r) ==
    /\ kmeCount < MaxKmeRequests
    /\ kme' = r.k
    /\ kmeReq' = req
    /\ kmeResp' = r.resp
    /\ kmeCount' = kmeCount + 1
    /\ UNCHANGED <<now, poolVars, secVars, engineVars, appVars>>

GetKeyRequest ==
    \E keyId \in IdChoices, sae \in SAEs \cup {NoSae}, isNew \in BOOLEAN,
       p \in RandomPatterns, tag \in {98, 99} :
        KmeServe(KmeRequest("key_ID", sae, 0),
                 KmeGetKey(kme, keyId, sae, isNew, now, p, tag))

WithKeyIdsRequest ==
    \E keyId \in IdChoices, extra \in IdChoices, n \in 0..1,
       sae \in SAEs \cup {NoSae}, tape \in RandomTapes :
        KmeServe(KmeRequest("with_key_IDs", sae, 0),
                 KmeWithKeyIds(kme, keyId, SubSeq(<<extra>>, 1, n), sae, now, tape))

EncKeysPost ==
    \E slaveId \in SAEs, size \in {8, 512}, master \in SAEs \cup {NoSae},
       tape \in RandomTapes :
        KmeServe(KmeRequest("enc_keys", master, size),
                 KmeEncKeys(kme, slaveId, size, master, now, tape))

DecKeysPost ==
    \E keyId \in IdChoices, master \in SAEs \cup {NoSae}, tape \in RandomTapes :
        KmeServe(KmeRequest("dec_keys", master, 0),
                 KmeDecKeys(kme, <<keyId>>, master, now, tape))

GeneratePost ==
    \E count \in 1..2, size \in {8, 512}, tape \in RandomTapes :
        KmeServe(KmeRequest("generate", NoSae, size),
                 KmeGenerate(kme, count, size, now, tape))

StatusRequest ==
    KmeServe(KmeRequest("status", NoSae, 0), KmeStatus(kme))

Tick ==
    /\ now < MaxClock
    /\ now' = now + 1
    /\ UNCHANGED <<kme, kmeReq, kmeResp, kmeCount, poolVars, secVars, engineVars, appVars>>

KmeInit ==
    /\ \E p \in RandomPatterns : kme = KmeStartFrom([db |-> <<>>, status |-> <<>>], 1, p)
    /\ now = 0
    /\ kmeReq = KmeRequest("none", NoSae, 0)
    /\ kmeResp = KmeOk(<<>>)
    /\ kmeCount = 0

KmeNext ==
    \/ GetKeyRequest
    \/ WithKeyIdsRequest
    \/ EncKeysPost
    \/ DecKeysPost
    \/ GeneratePost
    \/ StatusRequest
    \/ Tick

(***************************************************************************)
(* Bytes and text on the client (src/unnamed/part_003, part_004).          *)
(***************************************************************************)
RECURSIVE XorBits(_, _, _)
XorBits(a, b, n) ==
    IF n = 0 THEN 0
    ELSE (((a % 2) + (b % 2)) % 2) + 2 * XorBits(a \div 2, b \div 2, n - 1)

\* The exclusive or of two half-bytes, as a table.
XorNibble == [a \in 0..15 |-> [b \in 0..15 |-> XorBits(a, b, 4)]]

\* a ^ b stored into a Uint8Array element.
Xor(a, b) == 16 * XorNibble[a \div 16][b \div 16] + XorNibble[a % 16][b % 16]

RECURSIVE Utf8Encode(_)
\* new TextEncoder().encode(str), for code points below 2048.
Utf8Encode(str) ==
    IF Len(str) = 0 THEN <<>>
    ELSE (IF str[1] < 128 THEN <<str[1]>>
          ELSE <<192 + (str[1] \div 64), 128 + (str[1] % 64)>>)
         \o Utf8Encode(Tail(str))

TwoByteAt(b) ==
    /\ Len(b) >= 2
    /\ b[1] >= 194 /\ b[1] <= 223
    /\ b[2] >= 128 /\ b[2] <= 191

RECURSIVE Utf8Decode(_)
\* new TextDecoder().decode(bytes): a byte that starts no well-formed
\* sequence becomes U+FFFD. Sequences of three and four bytes encode code
\* points no text of the model holds; their bytes are replaced one by one.
Utf8Decode(b) ==
    IF Len(b) = 0 THEN <<>>
    ELSE IF b[1] < 128 THEN <<b[1]>> \o Utf8Decode(Tail(b))
    ELSE IF TwoByteAt(b)
         THEN <<(b[1] - 192) * 64 + (b[2] - 128)>> \o Utf8Decode(SubSeq(b, 3, Len(b)))
    ELSE <<65533>> \o Utf8Decode(Tail(b))

RECURSIVE Utf8WellFormed(_)
Utf8WellFormed(b) ==
    IF Len(b) = 0 THEN TRUE
    ELSE IF b[1] < 128 THEN Utf8WellFormed(Tail(b))
    ELSE IF TwoByteAt(b) THEN Utf8WellFormed(SubSeq(b, 3, Len(b)))
    ELSE FALSE

\* byte.toString(16).padStart(2, "0") for each byte, joined.
HexOfBytes(b) ==
    LET HexDigit(d) == IF d < 10 THEN 48 + d ELSE 87 + d
    IN  [j \in 1..(2 * Len(b)) |->
            HexDigit(IF j % 2 = 1 THEN b[(j + 1) \div 2] \div 16
                     ELSE b[j \div 2] % 16)]

\* CryptoJS.enc.Hex.parse
HexParse(c) ==
    LET HexValue(x) == IF x >= 97 THEN x - 87 ELSE x - 48
    IN  [j \in 1..(Len(c) \div 2) |->
            HexValue(c[2 * j - 1]) * 16 + HexValue(c[2 * j])]

(***************************************************************************)
(* src/unnamed/part_004: KMService, the client of the key manager. The     *)
(* repository holds two modules of that name: the front-end mock (lines    *)
(* 8-282), which makes keys up locally, and the ETSI client (lines         *)
(* 292-602), which asks the key manager of email-server.js. kmMode says    *)
(* which one the client is built with.                                     *)
(*                                                                         *)
(* rnd is the randomness one call consumes: p a byte pattern, tag a random *)
(* id suffix, r and r2 two random words, iv a random IV. The model draws   *)
(* one of two outcomes of the random source, so that two calls can draw    *)
(* the same values or different ones.                                      *)
(***************************************************************************)
Rnds == {[p |-> <<1, 255>>, tag |-> 98, r |-> 11, r2 |-> 21, iv |-> 0],
         [p |-> <<255, 1>>, tag |-> 99, r |-> 12, r2 |-> 22, iv |-> 5]}

ClientKey(rec) == [key_ID |-> rec.key_ID, key |-> rec.key, key_size |-> rec.key_size]

\* generateMockKey(keyId = null, keySize = 256): a random hex string of
\* keySize / 8 bytes under the given id, or under a new id QK_<now>_<random>.
\* The mock's record has a field size and no field key_size (0 here).
generateMockKey(keyId, hasId, keySize, t, rnd) ==
    [key_ID |-> IF hasId THEN keyId ELSE KeyId("QK", t, NoSae, rnd.tag),
     key |-> HexOfBytes(RandomBytes(rnd.p, keySize \div 8)),
     key_size |-> 0]

KmFailure(k) == [k |-> k, status |-> "error", keys |-> <<>>]

\* KMService.requestEncryptionKey(slaveId, keySize)
requestEncryptionKey(mode, k, sae, slaveId, keySize, t, rnd) ==
    LET Reply(r) ==
            IF r.resp.code = 200
            THEN [k |-> r.k, status |-> "success",
                  keys |-> [i \in 1..Len(r.resp.keys) |-> ClientKey(r.resp.keys[i])]]
            ELSE KmFailure(r.k)
    IN  IF mode = "mock"
        THEN [k |-> k, status |-> "success",
              keys |-> <<generateMockKey(UnknownId, FALSE, keySize, t, rnd)>>]
        ELSE IF mode = "unreachable" THEN KmFailure(k)
        ELSE Reply(KmeEncKeys(k, slaveId, keySize, sae, t, [j \in 1..2 |-> rnd.p]))

\* KMService.getKey(keyId)
getKey(mode, k, sae, keyId, t, rnd) ==
    LET Reply(r) ==
            IF r.resp.code = 200
            THEN [k |-> r.k, status |-> "success",
                  keys |-> [i \in 1..Len(r.resp.keys) |-> ClientKey(r.resp.keys[i])]]
            ELSE KmFailure(r.k)
    IN  IF mode = "mock"
        THEN [k |-> k, status |-> "success",
              keys |-> <<generateMockKey(keyId, TRUE, 256, t, rnd)>>]
        ELSE IF mode = "unreachable" THEN KmFailure(k)
        ELSE Reply(KmeGetKey(k, keyId, sae, FALSE, t, rnd.p, rnd.tag))

FirstKeyOrThrow(response) ==
    IF response.status = "success" /\ Len(response.keys) > 0
    THEN [ok |-> TRUE, key |-> response.keys[1], k |-> response.k]
    ELSE [ok |-> FALSE, key |-> [key_ID |-> UnknownId, key |-> <<>>, key_size |-> 0], k |-> response.k]

\* KMService.generateOTPKeys(dataSize): dataSize is in bits.
generateOTPKeys(mode, k, sae, dataSize, t, rnd) ==
    LET keySize == ((dataSize + 7) \div 8) * 8
    IN  FirstKeyOrThrow(requestEncryptionKey(mode, k, sae, sae, keySize, t, rnd))

\* KMService.getQuantumSeed(keySize = 256)
getQuantumSeed(mode, k, sae, keySize, t, rnd) ==
    FirstKeyOrThrow(requestEncryptionKey(mode, k, sae, sae, keySize, t, rnd))

(***************************************************************************)
(* src/unnamed/part_003, lines 1-604: SecurityService.                     *)
(***************************************************************************)
Tiers == {"quantum_secure", "quantum_aes", "pqc_encryption", "no_quantum"}

NoPayload ==
    [encryptedData |-> <<>>, securityLevel |-> "none", algorithm |-> "none",
     quantumKeyId |-> UnknownId, hasKeyId |-> FALSE, iv |-> <<>>,
     hasIv |-> FALSE,
     pqcPublicKey |-> <<>>, rsaPublicKey |-> <<>>, encryptedSessionKey |-> <<>>,
     originalSize |-> 0]

Thrown(k, msg) == [ok |-> FALSE, error |-> msg, payload |-> NoPayload, data |-> <<>>, k |-> k]
Encrypted(k, payload) ==
    [ok |-> TRUE, error |-> "none", payload |-> payload, data |-> <<>>, k |-> k]
Decrypted(k, data) ==
    [ok |-> TRUE, error |-> "none", payload |-> NoPayload, data |-> data, k |-> k]

\* bytesToBase64 / base64ToBytes
bytesToBase64(bytes) == B64Encode(bytes)
base64ToBytes(text) == Atob(text)

\* A variant without the length comparison: a short key is recycled from its
\* first byte.
encryptWithOTPRecycling(mode, k, sae, data, t, rnd) ==
    LET dataBytes == Utf8Encode(data)
        dataSize  == Len(dataBytes)
        WithKeyBytes(g, kb) ==
            IF ~kb.ok THEN Thrown(g.k, "InvalidCharacterError")
            ELSE Encrypted(g.k,
                     [NoPayload EXCEPT
                        !.encryptedData =
                            bytesToBase64([i \in 1..dataSize |->
                                Xor(dataBytes[i],
                                    kb.bytes[((i - 1) % Len(kb.bytes)) + 1])]),
                        !.securityLevel = "quantum_secure",
                        !.algorithm = "OTP",
                        !.quantumKeyId = g.key.key_ID,
                        !.hasKeyId = TRUE,
                        !.originalSize = dataSize])
        WithKey(g) ==
            IF ~g.ok THEN Thrown(g.k, "Failed to generate OTP keys")
            ELSE IF g.key.key = <<>>
            THEN Thrown(g.k, "Failed to obtain quantum key for OTP encryption")
            ELSE WithKeyBytes(g, base64ToBytes(g.key.key))
    IN  WithKey(generateOTPKeys(mode, k, sae, dataSize * 8, t, rnd))

\* encryptWithOTP(data)
encryptWithOTP(mode, k, sae, data, t, rnd) ==
    LET dataBytes == Utf8Encode(data)
        dataSize  == Len(dataBytes)
        WithKeyBytes(g, kb) ==
            IF ~kb.ok THEN Thrown(g.k, "InvalidCharacterError")
            ELSE IF Len(kb.bytes) < dataSize
            THEN Thrown(g.k, "Quantum key too short for OTP encryption")
            ELSE Encrypted(g.k,
                     [NoPayload EXCEPT
                        !.encryptedData =
                            bytesToBase64([i \in 1..dataSize |->
                                              Xor(dataBytes[i], kb.bytes[i])]),
                        !.securityLevel = "quantum_secure",
                        !.algorithm = "OTP",
                        !.quantumKeyId = g.key.key_ID,
                        !.hasKeyId = TRUE,
                        !.originalSize = dataSize])
        WithKey(g) ==
            IF ~g.ok THEN Thrown(g.k, "Failed to generate OTP keys")
            ELSE IF g.key.key = <<>>
            THEN Thrown(g.k, "Failed to obtain quantum key for OTP encryption")
            ELSE WithKeyBytes(g, base64ToBytes(g.key.key))
    IN  WithKey(generateOTPKeys(mode, k, sae, dataSize * 8, t, rnd))

\* decryptFromOTP(encryptedData)
decryptFromOTP(mode, k, sae, enc, t, rnd) ==
    LET WithKeyBytes(r, kb, eb) ==
            IF ~kb.ok \/ ~eb.ok THEN Thrown(r.k, "InvalidCharacterError")
            ELSE Decrypted(r.k,
                     Utf8Decode([i \in 1..Len(eb.bytes) |->
                                    Xor(eb.bytes[i],
                                        IF i <= Len(kb.bytes) THEN kb.bytes[i] ELSE 0)]))
        WithKey(r) ==
            IF r.status # "success" \/ Len(r.keys) = 0
            THEN Thrown(r.k, "Failed to retrieve quantum key for OTP decryption")
            ELSE WithKeyBytes(r, base64ToBytes(r.keys[1].key),
                              base64ToBytes(enc.encryptedData))
    IN  IF ~enc.hasKeyId THEN Thrown(k, "Missing quantum key ID for OTP decryption")
        ELSE WithKey(getKey(mode, k, sae, enc.quantumKeyId, t, rnd))

(***************************************************************************)
(* The three tiers built on CryptoJS. The library is not part of the       *)
(* repository; the model gives it the two properties the service relies    *)
(* on: AES under the same key and IV inverts itself, and under another key *)
(* it yields other bytes. SHA256 is a digest of the text it is given, and  *)
(* a random word or a digest printed as text is the one-element text       *)
(* holding it.                                                             *)
(***************************************************************************)
RECURSIVE WeightedSum(_, _)
WeightedSum(x, i) ==
    IF i > Len(x) THEN 0 ELSE i * x[i] + WeightedSum(x, i + 1)

\* CryptoJS.SHA256(text)
Sha256(x) == (7 + 31 * Len(x) + WeightedSum(x, 1)) % 256

AesXform(key, iv, bytes) ==
    [i \in 1..Len(bytes) |-> Xor(bytes[i], (key + iv + i) % 256)]

\* CryptoJS.AES.encrypt(data, key, {iv, mode, padding}).toString()
AesEncrypt(data, key, iv) == bytesToBase64(AesXform(key, iv, Utf8Encode(data)))

\* CryptoJS.AES.decrypt(text, key, {iv, mode, padding}).toString(Utf8):
\* throws on bytes that are no UTF-8 text.
AesDecrypt(text, key, iv) ==
    LET Plain(b) ==
            IF Utf8WellFormed(b)
            THEN [ok |-> TRUE, data |-> Utf8Decode(b)]
            ELSE [ok |-> FALSE, data |-> <<>>]
        Decoded(c) ==
            IF c.ok THEN Plain(AesXform(key, iv, c.bytes))
            ELSE [ok |-> FALSE, data |-> <<>>]
    IN  Decoded(Atob(text))

\* CryptoJS.enc.Hex.parse(encryptedData.iv), as the one byte the model's IV
\* holds; the call reads the length of its argument and so throws a TypeError
\* on a payload without the field (hasIv).
IvOf(text) == IF Len(HexParse(text)) = 0 THEN 0 ELSE HexParse(text)[1]

\* encryptWithQuantumAES(data)
encryptWithQuantumAES(mode, k, sae, data, t, rnd) ==
    LET WithKeyBytes(g, kb) ==
            IF ~kb.ok THEN Thrown(g.k, "InvalidCharacterError")
            ELSE Encrypted(g.k,
                     [NoPayload EXCEPT
                        !.encryptedData = AesEncrypt(data, Sha256(kb.bytes), rnd.iv),
                        !.securityLevel = "quantum_aes",
                        !.algorithm = "AES-256-GCM",
                        !.quantumKeyId = g.key.key_ID,
                        !.hasKeyId = TRUE,
                        !.iv = HexOfBytes(<<rnd.iv>>),
                        !.hasIv = TRUE])
        WithKey(g) ==
            IF ~g.ok THEN Thrown(g.k, "Failed to get quantum seed")
            ELSE IF g.key.key = <<>>
            THEN Thrown(g.k, "Failed to obtain quantum seed for AES encryption")
            ELSE WithKeyBytes(g, base64ToBytes(g.key.key))
    IN  WithKey(getQuantumSeed(mode, k, sae, 256, t, rnd))

\* decryptFromQuantumAES(encryptedData)
decryptFromQuantumAES(mode, k, sae, enc, t, rnd) ==
    LET Plain(r, d) ==
            IF ~d.ok THEN Thrown(r.k, "Malformed UTF-8 data")
            ELSE IF d.data = <<>>
            THEN Thrown(r.k, "Decryption failed - invalid key or corrupted data")
            ELSE Decrypted(r.k, d.data)
        WithKeyBytes(r, kb) ==
            IF ~kb.ok THEN Thrown(r.k, "InvalidCharacterError")
            ELSE IF ~enc.hasIv THEN Thrown(r.k, "TypeError")
            ELSE Plain(r, AesDecrypt(enc.encryptedData, Sha256(kb.bytes), IvOf(enc.iv)))
        WithKey(r) ==
            IF r.status # "success" \/ Len(r.keys) = 0
            THEN Thrown(r.k, "Failed to retrieve quantum key for AES decryption")
            ELSE WithKeyBytes(r, base64ToBytes(r.keys[1].key))
    IN  IF ~enc.hasKeyId THEN Thrown(k, "Missing quantum key ID for AES decryption")
        ELSE WithKey(getKey(mode, k, sae, enc.quantumKeyId, t, rnd))

\* encryptWithPQC(data): the AES key is the digest of a random private key;
\* the payload carries the random public key.
encryptWithPQC(k, data, rnd) ==
    Encrypted(k,
        [NoPayload EXCEPT
           !.encryptedData = AesEncrypt(data, Sha256(<<rnd.r2>>), rnd.iv),
           !.securityLevel = "pqc_encryption",
           !.algorithm = "Kyber-AES-256",
           !.pqcPublicKey = <<rnd.r>>,
           !.iv = HexOfBytes(<<rnd.iv>>),
           !.hasIv = TRUE])

\* getStoredPQCPrivateKey(publicKey) == SHA256(publicKey + "pqc_private")
getStoredPQCPrivateKey(publicKey) == <<Sha256(publicKey \o <<1001>>)>>

\* decryptFromPQC(encryptedData)
decryptFromPQC(k, enc) ==
    LET privateKey == getStoredPQCPrivateKey(enc.pqcPublicKey)
        Plain(d) ==
            IF ~d.ok THEN Thrown(k, "Malformed UTF-8 data")
            ELSE IF d.data = <<>> THEN Thrown(k, "PQC decryption failed")
            ELSE Decrypted(k, d.data)
    IN  IF ~enc.hasIv THEN Thrown(k, "TypeError")
        ELSE Plain(AesDecrypt(enc.encryptedData, Sha256(privateKey), IvOf(enc.iv)))

\* encryptWithStandard(data): the AES key is a random session key; the
\* payload carries SHA256(sessionKey + publicKey) and the random public key.
encryptWithStandard(k, data, rnd) ==
    Encrypted(k,
        [NoPayload EXCEPT
           !.encryptedData = AesEncrypt(data, rnd.r2, rnd.iv),
           !.securityLevel = "no_quantum",
           !.algorithm = "RSA-2048-AES-256",
           !.encryptedSessionKey = <<Sha256(<<rnd.r2, rnd.r>>)>>,
           !.rsaPublicKey = <<rnd.r>>,
           !.iv = HexOfBytes(<<rnd.iv>>),
           !.hasIv = TRUE])

\* getStoredRSAPrivateKey(publicKey) == SHA256(publicKey + "rsa_private")
getStoredRSAPrivateKey(publicKey) == <<Sha256(publicKey \o <<1002>>)>>

\* simulateRSADecrypt(encryptedData, privateKey) == SHA256(privateKey)
simulateRSADecrypt(encryptedSessionKey, privateKey) == Sha256(privateKey)

\* decryptFromStandard(encryptedData)
decryptFromStandard(k, enc) ==
    LET privateKey == getStoredRSAPrivateKey(enc.rsaPublicKey)
        sessionKey == simulateRSADecrypt(enc.encryptedSessionKey, privateKey)
        Plain(d) ==
            IF ~d.ok THEN Thrown(k, "Malformed UTF-8 data")
            ELSE IF d.data = <<>> THEN Thrown(k, "Standard decryption failed")
            ELSE Decrypted(k, d.data)
    IN  IF ~enc.hasIv THEN Thrown(k, "TypeError")
        ELSE Plain(AesDecrypt(enc.encryptedData, sessionKey, IvOf(enc.iv)))

\* !v for the values a security level takes in the model: undefined ("none")
\* and the empty string are falsy, every other string is truthy.
Falsy(v) == v \in {"none", ""}

\* A variant that falls back to the tier without quantum keys when a
\* key-manager-backed tier fails.
encryptDataFallingBack(mode, k, sae, level, data, opt, t, rnd) ==
    LET securityLevel == IF ~Falsy(opt) THEN opt ELSE level
        Fallback(r) == IF r.ok THEN r ELSE encryptWithStandard(r.k, data, rnd)
    IN  CASE securityLevel = "quantum_secure" ->
                Fallback(encryptWithOTP(mode, k, sae, data, t, rnd))
          [] securityLevel = "quantum_aes" ->
                Fallback(encryptWithQuantumAES(mode, k, sae, data, t, rnd))
          [] securityLevel = "pqc_encryption" -> encryptWithPQC(k, data, rnd)
          [] securityLevel = "no_quantum" -> encryptWithStandard(k, data, rnd)
          [] OTHER -> Thrown(k, "Unsupported security level")

\* encryptData(data, options): options.securityLevel || currentSecurityLevel
encryptData(mode, k, sae, level, data, opt, t, rnd) ==
    LET securityLevel == IF ~Falsy(opt) THEN opt ELSE level
    IN  CASE securityLevel = "quantum_secure" -> encryptWithOTP(mode, k, sae, data, t, rnd)
          [] securityLevel = "quantum_aes" ->
                encryptWithQuantumAES(mode, k, sae, data, t, rnd)
          [] securityLevel = "pqc_encryption" -> encryptWithPQC(k, data, rnd)
          [] securityLevel = "no_quantum" -> encryptWithStandard(k, data, rnd)
          [] OTHER -> Thrown(k, "Unsupported security level")

\* A variant that prefers the caller's option to the payload's tier.
decryptDataOptionFirst(mode, k, sae, enc, opt, t, rnd) ==
    LET securityLevel == IF ~Falsy(opt) THEN opt ELSE enc.securityLevel
    IN  CASE securityLevel = "quantum_secure" -> decryptFromOTP(mode, k, sae, enc, t, rnd)
          [] securityLevel = "quantum_aes" ->
                decryptFromQuantumAES(mode, k, sae, enc, t, rnd)
          [] securityLevel = "pqc_encryption" -> decryptFromPQC(k, enc)
          [] securityLevel = "no_quantum" -> decryptFromStandard(k, enc)
          [] OTHER -> Thrown(k, "Unsupported security level")

\* decryptData(encryptedData, options):
\* encryptedData.securityLevel || options.securityLevel
decryptData(mode, k, sae, enc, opt, t, rnd) ==
    LET securityLevel == IF ~Falsy(enc.securityLevel) THEN enc.securityLevel ELSE opt
    IN  CASE securityLevel = "quantum_secure" -> decryptFromOTP(mode, k, sae, enc, t, rnd)
          [] securityLevel = "quantum_aes" ->
                decryptFromQuantumAES(mode, k, sae, enc, t, rnd)
          [] securityLevel = "pqc_encryption" -> decryptFromPQC(k, enc)
          [] securityLevel = "no_quantum" -> decryptFromStandard(k, enc)
          [] OTHER -> Thrown(k, "Unsupported security level")

(***************************************************************************)
(* The client as a process: calls of encryptData and decryptData, one at a *)
(* time, each with the key manager's handler it triggers.                  *)
(***************************************************************************)
\* "", "A", "é" (one character, two bytes) and a text of 33 bytes.
LongText == [i \in 1..33 |-> 65]
Plaintexts == {<<>>, <<65>>, <<233>>, LongText}

NoOp == [op |-> "none", ok |-> TRUE, error |-> "none", idx |-> 0,
         input |-> <<>>, data |-> <<>>, requested |-> "none"]

\* One call of encryptData(data, {securityLevel: opt}), opt "none" for a call
\* without the option, while the client keeps fewer than limit payloads.
EncryptDataWith(opts, limit) ==
    \E data \in Plaintexts, opt \in opts, rnd \in Rnds :
        LET Returned(r) ==
                /\ kme' = r.k
                /\ payloads' = IF r.ok THEN Append(payloads, r.payload) ELSE payloads
                /\ plains' = IF r.ok THEN Append(plains, data) ELSE plains
                /\ lastOp' = [op |-> "encrypt", ok |-> r.ok, error |-> r.error,
                              idx |-> IF r.ok THEN Len(payloads) + 1 ELSE 0,
                              input |-> data, data |-> <<>>, requested |-> opt]
        IN  /\ Len(payloads) < limit
            /\ Returned(encryptData(kmMode, kme, saeId, currentSecurityLevel, data,
                                    opt, now, rnd))
            /\ UNCHANGED <<now, kmeReq, kmeResp, kmeCount, kmMode, saeId,
                           currentSecurityLevel, tampered, poolVars, engineVars,
                           appVars>>

EncryptDataCall == EncryptDataWith(Tiers \cup {"none"}, MaxPayloads)

\* encryptData(data, {securityLevel: "quantum_secure"})
OtpEncryptCall == EncryptDataWith({"quantum_secure"}, MaxOtpPayloads)

DecryptDataCall ==
    \E i \in 1..Len(payloads), opt \in Tiers \cup {"none"}, rnd \in Rnds :
        LET Returned(r) ==
                /\ kme' = r.k
                /\ lastOp' = [op |-> "decrypt", ok |-> r.ok, error |-> r.error,
                              idx |-> i, input |-> <<>>, data |-> r.data,
                              requested |-> opt]
        IN  /\ Returned(decryptData(kmMode, kme, saeId, payloads[i], opt, now, rnd))
            /\ UNCHANGED <<now, kmeReq, kmeResp, kmeCount, kmMode, saeId,
                           currentSecurityLevel, payloads, plains, tampered, poolVars,
                           engineVars, appVars>>

\* The tier the API reference gives each security level (part_000:778-783).
DocumentedTier(level) ==
    CASE level = 1 -> "no_quantum"
      [] level = 2 -> "pqc_encryption"
      [] level = 3 -> "quantum_aes"
      [] level = 4 -> "quantum_secure"

\* options.securityLevel, for an options argument that is an object with
\* the property, an object without it, or a number: a number has no such
\* property and the read gives undefined.
SecurityLevelOption(options) ==
    IF options.isObject THEN options.securityLevel ELSE "none"

\* encryptData(data, level) with level a number from 1 to 4, the call of the
\* API reference and of the validation script (TESTING.md:255-260).
EncryptDataByLevel ==
    \E data \in Plaintexts, level \in 1..4, rnd \in Rnds :
        LET Returned(r) ==
                /\ kme' = r.k
                /\ payloads' = IF r.ok THEN Append(payloads, r.payload) ELSE payloads
                /\ plains' = IF r.ok THEN Append(plains, data) ELSE plains
                /\ lastOp' = [op |-> "encrypt", ok |-> r.ok, error |-> r.error,
                              idx |-> IF r.ok THEN Len(payloads) + 1 ELSE 0,
                              input |-> data, data |-> <<>>,
                              requested |-> DocumentedTier(level)]
        IN  /\ Len(payloads) < MaxPayloads
            /\ Returned(encryptData(
                            kmMode, kme, saeId, currentSecurityLevel, data,
                            SecurityLevelOption([isObject |-> FALSE, level |-> level]),
                            now, rnd))
            /\ UNCHANGED <<now, kmeReq, kmeResp, kmeCount, kmMode, saeId,
                           currentSecurityLevel, tampered, poolVars, engineVars,
                           appVars>>

\* encryptData with a security level that is none of the four: the string
\* "bogus" or the empty string as options.securityLevel, or the number 5 in
\* the place of options.
EncryptDataInvalidTier ==
    \E data \in Plaintexts, given \in {"bogus", "", "5"}, rnd \in Rnds :
        LET options == IF given = "5" THEN [isObject |-> FALSE, level |-> 5]
                       ELSE [isObject |-> TRUE, securityLevel |-> given]
            Returned(r) ==
                /\ kme' = r.k
                /\ payloads' = IF r.ok THEN Append(payloads, r.payload) ELSE payloads
                /\ plains' = IF r.ok THEN Append(plains, data) ELSE plains
                /\ lastOp' = [op |-> "encrypt", ok |-> r.ok, error |-> r.error,
                              idx |-> IF r.ok THEN Len(payloads) + 1 ELSE 0,
                              input |-> data, data |-> <<>>, requested |-> given]
        IN  /\ Len(payloads) < MaxPayloads
            /\ Returned(encryptData(kmMode, kme, saeId, currentSecurityLevel, data,
                                    SecurityLevelOption(options), now, rnd))
            /\ UNCHANGED <<now, kmeReq, kmeResp, kmeCount, kmMode, saeId,
                           currentSecurityLevel, tampered, poolVars, engineVars,
                           appVars>>

\* decryptData of a payload whose securityLevel is none of the four, with
\* an option that is none of the four or with none.
DecryptDataInvalidTier ==
    \E i \in 1..Len(payloads), level \in {"bogus", ""},
       opt \in {"bogus", "", "none"}, rnd \in Rnds :
        LET Returned(r) ==
                /\ kme' = r.k
                /\ lastOp' = [op |-> "decrypt", ok |-> r.ok, error |-> r.error,
                              idx |-> i, input |-> <<>>, data |-> r.data,
                              requested |-> "bogus"]
        IN  /\ Returned(decryptData(kmMode, kme, saeId,
                                    [payloads[i] EXCEPT !.securityLevel = level],
                                    opt, now, rnd))
            /\ UNCHANGED <<now, kmeReq, kmeResp, kmeCount, kmMode, saeId,
                           currentSecurityLevel, payloads, plains, tampered, poolVars,
                           engineVars, appVars>>

\* setSecurityLevel(level): throws, and changes nothing, for a level that
\* is none of the four.
SetSecurityLevel ==
    \E level \in Tiers \cup {"bogus"} :
        /\ level \in Tiers
        /\ currentSecurityLevel' = level
        /\ UNCHANGED <<kmMode, saeId, payloads, plains, lastOp, tampered, kmeVars, poolVars,
                       engineVars, appVars>>

SecInit ==
    /\ \E m \in {<<"mock", "saeA">>, <<"remote", "saeA">>, <<"remote", NoSae>>} :
          kmMode = m[1] /\ saeId = m[2]
    /\ currentSecurityLevel = "quantum_secure"
    /\ payloads = <<>>
    /\ plains = <<>>
    /\ lastOp = NoOp
    /\ tampered = {}

\* encryptData(data, {securityLevel: "quantum_aes"})
AesEncryptCall == EncryptDataWith({"quantum_aes"}, MaxPayloads)

\* One character of the ciphertext of a payload changes between encryptData
\* and decryptData, to an 'A', or to a 'B' where the 'A' was; the rest of
\* the payload is as it was.
CorruptPayload ==
    \E i \in 1..Len(payloads) :
        \E pos \in 1..Len(payloads[i].encryptedData) :
            /\ i \notin tampered
            /\ payloads' = [payloads EXCEPT
                               ![i].encryptedData[pos] = IF @ = 65 THEN 66 ELSE 65]
            /\ tampered' = tampered \cup {i}
            /\ UNCHANGED <<kmMode, saeId, currentSecurityLevel, plains, lastOp,
                           kmeVars, poolVars, engineVars, appVars>>

TamperNext == AesEncryptCall \/ CorruptPayload \/ DecryptDataCall \/ Tick

OutageNext == EncryptDataCall \/ Tick

SecNext ==
    \/ EncryptDataCall
    \/ EncryptDataByLevel
    \/ DecryptDataCall
    \/ SetSecurityLevel
    \/ Tick

OtpNext == OtpEncryptCall \/ DecryptDataCall \/ Tick

TierNext ==
    \/ EncryptDataCall
    \/ EncryptDataInvalidTier
    \/ DecryptDataInvalidTier
    \/ SetSecurityLevel
    \/ Tick

(***************************************************************************)
(* src/src/services/encryptionEngine.js: EncryptionEngine, over the        *)
(* SecurityService above. An email is [subject, body, attachments]; an     *)
(* attachment holds its data either as a string or as the bytes of an      *)
(* ArrayBuffer (isBuffer). A field the source leaves undefined is a record *)
(* with present = FALSE, or the value "none".                              *)
(***************************************************************************)
\* "[QuMail-Encrypted]"
EncryptedTag ==
    <<91, 81, 117, 77, 97, 105, 108, 45, 69, 110, 99, 114, 121, 112, 116, 101,
      100, 93>>

\* "QuMail-Encrypted-Body"
BodyMarker ==
    <<81, 117, 77, 97, 105, 108, 45, 69, 110, 99, 114, 121, 112, 116, 101, 100,
      45, 66, 111, 100, 121>>

\* "[Decryption Failed]"
SubjectFailed ==
    <<91, 68, 101, 99, 114, 121, 112, 116, 105, 111, 110, 32, 70, 97, 105, 108,
      101, 100, 93>>

\* "<p><strong>Decryption Failed:</strong> Unable to decrypt email body.</p>"
BodyFailed ==
    <<60, 112, 62, 60, 115, 116, 114, 111, 110, 103, 62, 68, 101, 99, 114, 121,
      112, 116, 105, 111, 110, 32, 70, 97, 105, 108, 101, 100, 58, 60, 47, 115,
      116, 114, 111, 110, 103, 62, 32, 85, 110, 97, 98, 108, 101, 32, 116, 111,
      32, 100, 101, 99, 114, 121, 112, 116, 32, 101, 109, 97, 105, 108, 32, 98,
      111, 100, 121, 46, 60, 47, 112, 62>>

\* String.prototype.startsWith
StartsWith(text, pat) ==
    Len(text) >= Len(pat) /\ SubSeq(text, 1, Len(pat)) = pat

\* String.prototype.indexOf, counting from 1; 0 when pat does not occur.
IndexOf(text, pat) ==
    LET hits == {i \in 1..(Len(text) - Len(pat) + 1) :
                    SubSeq(text, i, i + Len(pat) - 1) = pat}
    IN  IF hits = {} THEN 0 ELSE CHOOSE i \in hits : \A j \in hits : i <= j

\* String.prototype.includes
Includes(text, pat) == IndexOf(text, pat) # 0

\* text.replace(pat, ""): the first occurrence is removed.
RemoveFirst(text, pat) ==
    LET i == IndexOf(text, pat)
    IN  IF i = 0 THEN text
        ELSE SubSeq(text, 1, i - 1) \o SubSeq(text, i + Len(pat), Len(text))

\* String.prototype.trim, for the white space the engine writes.
Trim(text) ==
    LET solid == {i \in 1..Len(text) : text[i] # 32 /\ text[i] # 10}
    IN  IF solid = {} THEN <<>>
        ELSE SubSeq(text, CHOOSE i \in solid : \A j \in solid : i <= j,
                          CHOOSE i \in solid : \A j \in solid : i >= j)

RECURSIVE BodyMatch(_)
\* encryptedBody.match(/QuMail-Encrypted-Body:\s*([^<]+)/), then trim():
\* after the marker and the colon the group takes at least one character
\* and stops before the next '<'; white space the group gives up or keeps
\* is trimmed away.
BodyMatch(text) ==
    LET i    == IndexOf(text, BodyMarker \o <<58>>)
        rest == SubSeq(text, i + Len(BodyMarker) + 1, Len(text))
        stop == IndexOf(rest, <<60>>)
        seg  == IF stop = 0 THEN rest ELSE SubSeq(rest, 1, stop - 1)
    IN  IF i = 0 THEN [ok |-> FALSE, data |-> <<>>]
        ELSE IF Len(seg) > 0 THEN [ok |-> TRUE, data |-> Trim(seg)]
        ELSE BodyMatch(rest)

NoMeta ==
    [present |-> FALSE, algorithm |-> "none", securityLevel |-> "none",
     quantumKeyId |-> UnknownId, hasKeyId |-> FALSE, isHtml |-> FALSE,
     originalSize |-> 0, originalContentType |-> "none"]

\* {algorithm, securityLevel, quantumKeyId, timestamp} of a payload
MetadataOf(encrypted) ==
    [NoMeta EXCEPT !.present = TRUE,
                   !.algorithm = encrypted.algorithm,
                   !.securityLevel = encrypted.securityLevel,
                   !.quantumKeyId = encrypted.quantumKeyId,
                   !.hasKeyId = encrypted.hasKeyId]

\* {encryptedData, securityLevel, quantumKeyId, algorithm}: what the engine
\* hands to decryptData.
PayloadOf(encryptedData, metadata) ==
    [NoPayload EXCEPT !.encryptedData = encryptedData,
                      !.securityLevel = metadata.securityLevel,
                      !.quantumKeyId = metadata.quantumKeyId,
                      !.hasKeyId = metadata.hasKeyId,
                      !.algorithm = metadata.algorithm]

\* console.error of the engine
Logged(event, filename) == [event |-> event, filename |-> filename]

\* The request a part of an email makes is the j-th of its call: the subject
\* the first, the body the second, then the attachments. It draws its own
\* randomness, and gap milliseconds pass between two requests.
RndAt(tape, j) == tape[((j - 1) % Len(tape)) + 1]
TimeAt(t, gap, j) == t + gap * (j - 1)

\* encryptSubject(subject, securityLevel)
encryptSubject(mode, k, sae, level, subject, securityLevel, t, rnd) ==
    LET Returned(r) ==
            [ok |-> r.ok, error |-> r.error, k |-> r.k,
             encryptedData |-> r.payload.encryptedData,
             metadata |-> IF r.ok THEN MetadataOf(r.payload) ELSE NoMeta]
    IN  Returned(encryptData(mode, k, sae, level, subject, securityLevel, t, rnd))

\* A variant that leaves the tier to the service's default.
encryptBodyAtDefault(mode, k, sae, level, body, securityLevel, t, rnd) ==
    LET Returned(r) ==
            [ok |-> r.ok, error |-> r.error, k |-> r.k,
             encryptedData |-> r.payload.encryptedData,
             metadata |-> IF r.ok
                          THEN [MetadataOf(r.payload) EXCEPT
                                   !.originalSize = Len(body)]
                          ELSE NoMeta]
    IN  Returned(encryptData(mode, k, sae, level, body, "none", t, rnd))

\* encryptBody(body, securityLevel)
encryptBody(mode, k, sae, level, body, securityLevel, t, rnd) ==
    LET isHtml == \/ Includes(body, <<60, 104, 116, 109, 108, 62>>)
                  \/ Includes(body, <<60, 98, 111, 100, 121, 62>>)
                  \/ Includes(body, <<60, 100, 105, 118, 62>>)
        Returned(r) ==
            [ok |-> r.ok, error |-> r.error, k |-> r.k,
             encryptedData |-> r.payload.encryptedData,
             metadata |-> IF r.ok
                          THEN [MetadataOf(r.payload) EXCEPT
                                   !.isHtml = isHtml,
                                   !.originalSize = Len(body)]
                          ELSE NoMeta]
    IN  Returned(encryptData(mode, k, sae, level, body, securityLevel, t, rnd))

\* arrayBufferToBase64 / base64ToArrayBuffer
arrayBufferToBase64(buffer) == B64Encode(buffer)
base64ToArrayBuffer(base64) == Atob(base64)

\* The body of the loop of encryptAttachments for one attachment.
encryptAttachment(mode, k, sae, level, attachment, securityLevel, t, rnd) ==
    LET attachmentData == IF attachment.isBuffer
                          THEN arrayBufferToBase64(attachment.data)
                          ELSE attachment.data
        Returned(r) ==
            IF r.ok
            THEN [k |-> r.k, console |-> <<>>,
                  attachment |->
                      [attachment EXCEPT
                          !.data = r.payload.encryptedData,
                          !.isBuffer = FALSE,
                          !.encrypted = TRUE,
                          !.metadata =
                              [MetadataOf(r.payload) EXCEPT
                                  !.originalSize = attachment.size,
                                  !.originalContentType = attachment.contentType]]]
            ELSE [k |-> r.k,
                  console |-> <<Logged("Failed to encrypt attachment",
                                       attachment.filename)>>,
                  attachment |-> [attachment EXCEPT !.encrypted = FALSE,
                                                    !.encryptionError = r.error]]
    IN  Returned(encryptData(mode, k, sae, level, attachmentData, securityLevel,
                             t, rnd))

RECURSIVE encryptAttachmentsDropping(_, _, _, _, _, _, _, _, _, _, _)
\* A variant that leaves an attachment out when its encryption throws.
encryptAttachmentsDropping(mode, k, sae, level, attachments, securityLevel, t, gap, tape, i, done) ==
    LET Pushed(a) ==
            encryptAttachmentsDropping(
                mode, a.k, sae, level, attachments, securityLevel, t, gap, tape,
                i + 1,
                [list |-> IF a.attachment.encrypted
                          THEN Append(done.list, a.attachment) ELSE done.list,
                 console |-> done.console \o a.console])
    IN  IF i > Len(attachments)
        THEN [k |-> k, list |-> done.list, console |-> done.console]
        ELSE Pushed(encryptAttachment(mode, k, sae, level, attachments[i],
                                      securityLevel, TimeAt(t, gap, 2 + i),
                                      RndAt(tape, 2 + i)))

RECURSIVE encryptAttachments(_, _, _, _, _, _, _, _, _, _, _)
\* encryptAttachments(attachments, securityLevel), from the i-th on; done
\* holds the attachments pushed so far and what was logged.
encryptAttachments(mode, k, sae, level, attachments, securityLevel, t, gap, tape, i, done) ==
    LET Pushed(a) ==
            encryptAttachments(mode, a.k, sae, level, attachments, securityLevel,
                               t, gap, tape, i + 1,
                               [list |-> Append(done.list, a.attachment),
                                console |-> done.console \o a.console])
    IN  IF i > Len(attachments)
        THEN [k |-> k, list |-> done.list, console |-> done.console]
        ELSE Pushed(encryptAttachment(mode, k, sae, level, attachments[i],
                                      securityLevel, TimeAt(t, gap, 2 + i),
                                      RndAt(tape, 2 + i)))

\* formatEncryptedSubject(encryptedSubject)
formatEncryptedSubject(encryptedSubject) ==
    LET data == encryptedSubject.encryptedData
    IN  EncryptedTag \o <<32>>
        \o SubSeq(data, 1, IF Len(data) < 50 THEN Len(data) ELSE 50)
        \o <<46, 46, 46>>

\* formatEncryptedBody(encryptedBody). The markup before the marker line is
\* cut down to its last tag "<div>" and the line break and indentation after
\* it; none of the markup left out holds the marker. After the ciphertext
\* come a line break, indentation and "</div>".
formatEncryptedBody(encryptedBody) ==
    <<60, 100, 105, 118, 62, 10, 32, 32, 32, 32, 32, 32>>
        \o BodyMarker \o <<58, 32>> \o encryptedBody.encryptedData
        \o <<10, 32, 32, 32, 32, 60, 47, 100, 105, 118, 62>>

\* encryptionMetadata.components; attachments.present tells whether the array
\* of the attachments' metadata is there.
NoComponents ==
    [subject |-> NoMeta, body |-> NoMeta,
     attachments |-> [present |-> FALSE, list |-> <<>>]]

NoEmail ==
    [subject |-> <<>>, body |-> <<>>, attachments |-> <<>>, encrypted |-> FALSE,
     hasMetadata |-> FALSE, securityLevel |-> "none", components |-> NoComponents]

NotCalled ==
    [called |-> FALSE, success |-> FALSE, error |-> "none", email |-> NoEmail]

EngineFailure(msg) ==
    [called |-> TRUE, success |-> FALSE, error |-> msg, email |-> NoEmail]

\* The encryptedEmail encryptEmail builds from the encrypted parts.
EnvelopeOf(securityLevel, s, b, list) ==
    [subject |-> formatEncryptedSubject(s),
     body |-> formatEncryptedBody(b),
     attachments |-> list,
     encrypted |-> TRUE,
     hasMetadata |-> TRUE,
     securityLevel |-> securityLevel,
     components |->
         [subject |-> s.metadata,
          body |-> b.metadata,
          attachments |->
              [present |-> TRUE,
               list |-> [i \in 1..Len(list) |-> list[i].metadata]]]]

\* encryptEmail(emailData, {securityLevel}): securityLevel "none" for a call
\* without the option. The engine is initialized.
encryptEmail(mode, k, sae, level, emailData, option, t, gap, tape) ==
    LET securityLevel == IF option # "none" THEN option ELSE level
        Envelope(s, b, a) ==
            [k |-> a.k, t |-> TimeAt(t, gap, 2 + Len(emailData.attachments)),
             console |-> a.console,
             result |->
                 [called |-> TRUE, success |-> TRUE, error |-> "none",
                  email |-> EnvelopeOf(securityLevel, s, b, a.list)]]
        WithBody(s, b) ==
            IF ~b.ok
            THEN [k |-> b.k, t |-> TimeAt(t, gap, 2),
                  result |-> EngineFailure(b.error),
                  console |-> <<Logged("Body encryption failed", "none"),
                                Logged("Email encryption failed", "none")>>]
            ELSE Envelope(s, b,
                     IF Len(emailData.attachments) > 0
                     THEN encryptAttachments(mode, b.k, sae, level,
                                             emailData.attachments, securityLevel,
                                             t, gap, tape, 1,
                                             [list |-> <<>>, console |-> <<>>])
                     ELSE [k |-> b.k, list |-> <<>>, console |-> <<>>])
        WithSubject(s) ==
            IF ~s.ok
            THEN [k |-> s.k, t |-> TimeAt(t, gap, 1),
                  result |-> EngineFailure(s.error),
                  console |-> <<Logged("Subject encryption failed", "none"),
                                Logged("Email encryption failed", "none")>>]
            ELSE WithBody(s, encryptBody(mode, s.k, sae, level, emailData.body,
                                         securityLevel, TimeAt(t, gap, 2),
                                         RndAt(tape, 2)))
    IN  WithSubject(encryptSubject(mode, k, sae, level, emailData.subject,
                                   securityLevel, TimeAt(t, gap, 1), RndAt(tape, 1)))

\* decryptSubject(encryptedSubject, metadata)
decryptSubject(mode, k, sae, encryptedSubject, metadata, t, rnd) ==
    LET encryptedData == RemoveFirst(encryptedSubject, EncryptedTag \o <<32>>)
        failed == <<Logged("Subject decryption failed", "none")>>
        Returned(d) ==
            IF ~d.ok THEN [text |-> SubjectFailed, k |-> d.k, console |-> failed]
            ELSE [text |-> d.data, k |-> d.k, console |-> <<>>]
    IN  IF ~StartsWith(encryptedSubject, EncryptedTag)
        THEN [text |-> encryptedSubject, k |-> k, console |-> <<>>]
        ELSE IF ~metadata.present
        THEN [text |-> SubjectFailed, k |-> k, console |-> failed]
        ELSE Returned(decryptData(mode, k, sae, PayloadOf(encryptedData, metadata),
                                  "none", t, rnd))

\* decryptBody(encryptedBody, metadata)
decryptBody(mode, k, sae, encryptedBody, metadata, t, rnd) ==
    LET failed == <<Logged("Body decryption failed", "none")>>
        Returned(d) ==
            IF ~d.ok THEN [text |-> BodyFailed, k |-> d.k, console |-> failed]
            ELSE [text |-> d.data, k |-> d.k, console |-> <<>>]
        Matched(match) ==
            IF ~match.ok \/ ~metadata.present
            THEN [text |-> BodyFailed, k |-> k, console |-> failed]
            ELSE Returned(decryptData(mode, k, sae, PayloadOf(match.data, metadata),
                                      "none", t, rnd))
    IN  IF ~Includes(encryptedBody, BodyMarker)
        THEN [text |-> encryptedBody, k |-> k, console |-> <<>>]
        ELSE Matched(BodyMatch(encryptedBody))

\* The body of the loop of decryptAttachments for one attachment; metadata
\* is metadataArray[i], NoMeta when the array has no such entry.
\* originalContentType.startsWith("text/") is membership in the text types
\* of the model.
decryptAttachment(mode, k, sae, attachment, metadata, t, rnd) ==
    LET binary == metadata.originalContentType # "none"
                  /\ metadata.originalContentType \notin {"text/plain", "text/html"}
        failed == <<Logged("Failed to decrypt attachment", attachment.filename)>>
        Restored(d, buffer) ==
            IF binary /\ ~buffer.ok
            THEN [attachment |->
                      [attachment EXCEPT !.decryptionError = "InvalidCharacterError"],
                  k |-> d.k, console |-> failed]
            ELSE [attachment |->
                      [attachment EXCEPT
                          !.data = IF binary THEN buffer.bytes ELSE d.data,
                          !.isBuffer = binary,
                          !.encrypted = FALSE,
                          !.contentType = IF metadata.originalContentType # "none"
                                          THEN metadata.originalContentType
                                          ELSE attachment.contentType,
                          !.size = IF metadata.originalSize # 0
                                   THEN metadata.originalSize ELSE attachment.size],
                  k |-> d.k, console |-> <<>>]
        Returned(d) ==
            IF ~d.ok
            THEN [attachment |-> [attachment EXCEPT !.decryptionError = d.error],
                  k |-> d.k, console |-> failed]
            ELSE Restored(d, base64ToArrayBuffer(d.data))
    IN  IF ~attachment.encrypted
        THEN [attachment |-> attachment, k |-> k, console |-> <<>>]
        ELSE IF ~metadata.present
        THEN [attachment |-> [attachment EXCEPT !.decryptionError = "TypeError"],
              k |-> k, console |-> failed]
        ELSE Returned(decryptData(mode, k, sae, PayloadOf(attachment.data, metadata),
                                  "none", t, rnd))

RECURSIVE decryptAttachments(_, _, _, _, _, _, _, _, _)
\* decryptAttachments(encryptedAttachments, metadataArray), from the i-th on,
\* for a metadataArray that is an array.
decryptAttachments(mode, k, sae, encryptedAttachments, metadataArray, t, rnd, i, done) ==
    LET Pushed(a) ==
            decryptAttachments(mode, a.k, sae, encryptedAttachments, metadataArray,
                               t, rnd, i + 1,
                               [list |-> Append(done.list, a.attachment),
                                console |-> done.console \o a.console])
    IN  IF i > Len(encryptedAttachments)
        THEN [k |-> k, list |-> done.list, console |-> done.console]
        ELSE Pushed(decryptAttachment(mode, k, sae, encryptedAttachments[i],
                                      IF i <= Len(metadataArray)
                                      THEN metadataArray[i] ELSE NoMeta,
                                      t, rnd))

\* decryptEmail(encryptedEmail). Reading metadataArray[i] of an array that is
\* not there throws outside the loop's try, so the whole call fails.
decryptEmail(mode, k, sae, encryptedEmail, t, rnd) ==
    LET components == encryptedEmail.components
        failed == <<Logged("Email decryption failed", "none")>>
        Opened(s, b, a) ==
            [k |-> a.k, console |-> s.console \o b.console \o a.console,
             result |-> [called |-> TRUE, success |-> TRUE, error |-> "none",
                         email |-> [encryptedEmail EXCEPT
                                       !.subject = s.text,
                                       !.body = b.text,
                                       !.attachments = a.list,
                                       !.encrypted = FALSE]]]
        WithBody(s, b) ==
            IF Len(encryptedEmail.attachments) = 0
            THEN Opened(s, b, [k |-> b.k, list |-> <<>>, console |-> <<>>])
            ELSE IF ~components.attachments.present
            THEN [k |-> b.k, console |-> s.console \o b.console \o failed,
                  result |-> EngineFailure("TypeError")]
            ELSE Opened(s, b,
                     decryptAttachments(mode, b.k, sae, encryptedEmail.attachments,
                                        components.attachments.list, t, rnd, 1,
                                        [list |-> <<>>, console |-> <<>>]))
        WithSubject(s) ==
            WithBody(s, decryptBody(mode, s.k, sae, encryptedEmail.body,
                                    components.body, t, rnd))
    IN  IF ~encryptedEmail.encrypted
        THEN [k |-> k, console |-> <<>>,
              result |-> [called |-> TRUE, success |-> TRUE, error |-> "none",
                          email |-> encryptedEmail]]
        ELSE IF ~encryptedEmail.hasMetadata
        THEN [k |-> k, console |-> failed,
              result |-> EngineFailure("Missing encryption metadata")]
        ELSE WithSubject(decryptSubject(mode, k, sae, encryptedEmail.subject,
                                        components.subject, t, rnd))

(***************************************************************************)
(* The engine as a process: one email is composed and encrypted, reaches   *)
(* a reader, and is decrypted there.                                       *)
(***************************************************************************)
Attachment(filename, data, isBuffer, contentType) ==
    [filename |-> filename, data |-> data, isBuffer |-> isBuffer,
     contentType |-> contentType, size |-> Len(data), encrypted |-> FALSE,
     encryptionError |-> "none", decryptionError |-> "none", metadata |-> NoMeta]

Email(subject, body, attachments) ==
    [NoEmail EXCEPT !.subject = subject, !.body = body, !.attachments = attachments]

\* "A" / "B" without attachments; an empty email; a subject of 40 characters,
\* whose ciphertext is longer than 50, with a small
\* text attachment; three attachments, the second a text of 33 bytes, for
\* which the key manager's 256-bit key is too short a one-time pad; and
\* three attachments whose data and content type disagree: the string "abcd"
\* sent as application/pdf, an ArrayBuffer sent as text/plain, and an
\* ArrayBuffer without a content type.
Emails ==
    {Email(<<65>>, <<66>>, <<>>),
     Email(<<>>, <<>>, <<>>),
     Email([i \in 1..40 |-> 83], <<60, 100, 105, 118, 62>>,
           <<Attachment("a", <<104, 105>>, FALSE, "text/plain")>>),
     Email(<<65>>, <<66>>,
           <<Attachment("a", <<0, 255>>, TRUE, "application/pdf"),
             Attachment("b", LongText, FALSE, "text/plain"),
             Attachment("c", <<104, 105>>, FALSE, "text/plain")>>),
     Email(<<65>>, <<66>>,
           <<Attachment("p", <<97, 98, 99, 100>>, FALSE, "application/pdf"),
             Attachment("t", <<0, 255>>, TRUE, "text/plain"),
             Attachment("n", <<0, 255>>, TRUE, "none")>>)}

EncryptEmailCall ==
    \E emailData \in Emails, option \in Tiers, gap \in 0..1,
       tape \in {<<r1, r2>> : r1 \in Rnds, r2 \in Rnds} \ {<<r, r>> : r \in Rnds} :
        LET Returned(r) ==
                /\ composed' = emailData
                /\ encryptionResult' = r.result
                /\ console' = r.console
                /\ kme' = r.k
                /\ now' = r.t
        IN  /\ ~encryptionResult.called
            /\ Returned(encryptEmail(kmMode, kme, saeId, currentSecurityLevel,
                                     emailData, option, now, gap, tape))
            /\ UNCHANGED <<receivedEmail, decryptionResult, decryptCount, progress,
                           kmeReq, kmeResp, kmeCount, poolVars, secVars, appVars>>

\* What reaches the reader: the envelope as it is ("direct"); the email the
\* send handler of email-server.js stores (lines 178-193), which keeps
\* subject, body, attachments and the encrypted flag, and no
\* encryptionMetadata ("server"); or the envelope without the metadata of one
\* part.
Delivered(e, how) ==
    CASE how = "server" -> [e EXCEPT !.hasMetadata = FALSE, !.components = NoComponents]
      [] how = "subject metadata lost" -> [e EXCEPT !.components.subject = NoMeta]
      [] how = "body metadata lost" -> [e EXCEPT !.components.body = NoMeta]
      [] how = "attachment metadata lost" ->
            [e EXCEPT !.components.attachments.list =
                          [i \in 1..Len(@) |-> IF i = 1 THEN NoMeta ELSE @[i]]]
      [] how = "attachment metadata array lost" ->
            [e EXCEPT !.components.attachments = [present |-> FALSE, list |-> <<>>]]
      [] OTHER -> e

Deliver ==
    \E how \in {"direct", "server", "subject metadata lost", "body metadata lost",
               "attachment metadata lost", "attachment metadata array lost"} :
        /\ encryptionResult.success
        /\ receivedEmail = NoEmail
        /\ receivedEmail' = Delivered(encryptionResult.email, how)
        /\ UNCHANGED <<composed, encryptionResult, decryptionResult, console,
                       decryptCount, progress, kmeVars, poolVars, secVars, appVars>>

DecryptEmailCall ==
    \E rnd \in Rnds :
        LET Returned(r) ==
                /\ decryptionResult' = r.result
                /\ console' = r.console
                /\ kme' = r.k
        IN  /\ receivedEmail # NoEmail
            /\ decryptCount < MaxDecrypts
            /\ Returned(decryptEmail(kmMode, kme, saeId, receivedEmail, now, rnd))
            /\ decryptCount' = decryptCount + 1
            /\ UNCHANGED <<composed, encryptionResult, receivedEmail, progress, now,
                           kmeReq, kmeResp, kmeCount, poolVars, secVars, appVars>>

\* No call of encryptEmail is between two of its awaits.
NoProgress ==
    [pc |-> "idle", securityLevel |-> "none", interrupted |-> FALSE,
     subject |-> NoMeta, body |-> NoMeta, list |-> <<>>]

EngineInit ==
    /\ progress = NoProgress
    /\ composed = NoEmail
    /\ encryptionResult = NotCalled
    /\ receivedEmail = NoEmail
    /\ decryptionResult = NotCalled
    /\ console = <<>>
    /\ decryptCount = 0

EngineNext == EncryptEmailCall \/ Deliver \/ DecryptEmailCall \/ Tick

(***************************************************************************)
(* encryptEmail between its awaits. The call reads the tier once, before   *)
(* the first await (lines 49-50), and hands it to every part; other code   *)
(* of the client, setSecurityLevel among it, runs while a part waits for   *)
(* the key manager.                                                        *)
(***************************************************************************)
\* encryptEmail up to its first await (lines 42-55)
BeginEncryptEmail ==
    \E emailData \in Emails, option \in Tiers \cup {"none"} :
        /\ progress.pc = "idle"
        /\ ~encryptionResult.called
        /\ composed' = emailData
        /\ progress' = [NoProgress EXCEPT
                           !.pc = "subject",
                           !.securityLevel = IF option # "none" THEN option
                                             ELSE currentSecurityLevel]
        /\ UNCHANGED <<encryptionResult, receivedEmail, decryptionResult, console,
                       decryptCount, kmeVars, poolVars, secVars, appVars>>

\* The catch of encryptEmail (lines 112-118)
EncryptEmailFails(k, msg, event) ==
    /\ kme' = k
    /\ encryptionResult' = EngineFailure(msg)
    /\ console' = <<Logged(event, "none"), Logged("Email encryption failed", "none")>>
    /\ progress' = [progress EXCEPT !.pc = "done"]

\* await this.encryptSubject(emailData.subject, securityLevel) (lines 57-60)
EncryptSubjectStep ==
    \E rnd \in Rnds :
        LET Returned(s) ==
                IF s.ok
                THEN /\ kme' = s.k
                     /\ progress' = [progress EXCEPT !.pc = "body", !.subject = s]
                     /\ UNCHANGED <<encryptionResult, console>>
                ELSE EncryptEmailFails(s.k, s.error, "Subject encryption failed")
        IN  /\ progress.pc = "subject"
            /\ Returned(encryptSubject(kmMode, kme, saeId, currentSecurityLevel,
                                       composed.subject, progress.securityLevel,
                                       now, rnd))
            /\ UNCHANGED <<composed, receivedEmail, decryptionResult, decryptCount,
                           now, kmeReq, kmeResp, kmeCount, poolVars, secVars, appVars>>

\* await this.encryptBody(emailData.body, securityLevel) (lines 61-64)
EncryptBodyStep ==
    \E rnd \in Rnds :
        LET Returned(b) ==
                IF b.ok
                THEN /\ kme' = b.k
                     /\ progress' = [progress EXCEPT !.pc = "attachments",
                                                     !.body = b]
                     /\ UNCHANGED <<encryptionResult, console>>
                ELSE EncryptEmailFails(b.k, b.error, "Body encryption failed")
        IN  /\ progress.pc = "body"
            /\ Returned(encryptBody(kmMode, kme, saeId, currentSecurityLevel,
                                    composed.body, progress.securityLevel, now, rnd))
            /\ UNCHANGED <<composed, receivedEmail, decryptionResult, decryptCount,
                           now, kmeReq, kmeResp, kmeCount, poolVars, secVars, appVars>>

\* One turn of the loop of encryptAttachments (lines 315-358)
EncryptAttachmentStep ==
    \E rnd \in Rnds :
        LET Returned(a) ==
                /\ kme' = a.k
                /\ progress' = [progress EXCEPT !.list = Append(@, a.attachment)]
                /\ console' = console \o a.console
        IN  /\ progress.pc = "attachments"
            /\ Len(progress.list) < Len(composed.attachments)
            /\ Returned(encryptAttachment(
                            kmMode, kme, saeId, currentSecurityLevel,
                            composed.attachments[Len(progress.list) + 1],
                            progress.securityLevel, now, rnd))
            /\ UNCHANGED <<composed, encryptionResult, receivedEmail,
                           decryptionResult, decryptCount, now, kmeReq, kmeResp, kmeCount,
                           poolVars, secVars, appVars>>

\* encryptEmail from the end of the loop to its return (lines 75-111)
FinishEncryptEmail ==
    /\ progress.pc = "attachments"
    /\ Len(progress.list) = Len(composed.attachments)
    /\ encryptionResult' =
           [called |-> TRUE, success |-> TRUE, error |-> "none",
            email |-> EnvelopeOf(progress.securityLevel, progress.subject,
                                 progress.body, progress.list)]
    /\ progress' = [progress EXCEPT !.pc = "done"]
    /\ UNCHANGED <<composed, receivedEmail, decryptionResult, console, decryptCount,
                   kmeVars, poolVars, secVars, appVars>>

\* setSecurityLevel(level) called while encryptEmail waits
SetSecurityLevelMeanwhile ==
    \E level \in Tiers :
        /\ progress.pc \in {"subject", "body", "attachments"}
        /\ level # currentSecurityLevel
        /\ currentSecurityLevel' = level
        /\ progress' = [progress EXCEPT !.interrupted = TRUE]
        /\ UNCHANGED <<kmMode, saeId, payloads, plains, lastOp, tampered, composed,
                       encryptionResult, receivedEmail, decryptionResult, console,
                       decryptCount, kmeVars, poolVars, appVars>>

EnvelopeNext ==
    \/ BeginEncryptEmail
    \/ EncryptSubjectStep
    \/ EncryptBodyStep
    \/ EncryptAttachmentStep
    \/ FinishEncryptEmail
    \/ SetSecurityLevelMeanwhile
    \/ Tick

\* One state of each part, for the specifications that leave it alone.
KmeIdle ==
    /\ kme = KmeStartFrom([db |-> <<>>, status |-> <<>>], 1, <<1, 255>>)
    /\ now = 0
    /\ kmeReq = KmeRequest("none", NoSae, 0)
    /\ kmeResp = KmeOk(<<>>)
    /\ kmeCount = 0
SecIdle ==
    /\ kmMode = "remote"
    /\ saeId = "saeA"
    /\ currentSecurityLevel = "quantum_secure"
    /\ payloads = <<>>
    /\ plains = <<>>
    /\ lastOp = NoOp
    /\ tampered = {}

(***************************************************************************)
(* src/src/services/emailService.js: EmailService. The two Maps are the    *)
(* sets of their keys; the connection records hold nothing the service     *)
(* reads back. Every method catches what it throws and returns             *)
(* {success: false, error}.                                                *)
(***************************************************************************)
ServiceResult(op, accountId, success, error) ==
    [op |-> op, accountId |-> accountId, success |-> success, error |-> error]

ServiceReturns(result) ==
    /\ serviceResult' = result
    /\ UNCHANGED <<imapConnections, smtpConnections, sendCall, emails, storeOp,
                   poolVars, kmeVars, secVars, engineVars>>

\* configureAccount(accountConfig): complete tells whether email, provider,
\* imap and smtp are all there; the two connection tests always succeed.
ConfigureAccount ==
    \E id \in 1..NumAccounts, complete \in BOOLEAN :
        /\ serviceResult' =
               IF complete
               THEN ServiceResult("configureAccount", id, TRUE, "none")
               ELSE ServiceResult("configureAccount", id, FALSE,
                                  "Invalid account configuration")
        /\ imapConnections' = IF complete THEN imapConnections \cup {id}
                              ELSE imapConnections
        /\ smtpConnections' = IF complete THEN smtpConnections \cup {id}
                              ELSE smtpConnections
        /\ UNCHANGED <<sendCall, emails, storeOp, poolVars, kmeVars, secVars,
                       engineVars>>

\* validateEmailData(emailData): to, subject and body are there and are not
\* blank; the emails of the model have a recipient.
validateEmailData(emailData) ==
    Trim(emailData.subject) # <<>> /\ Trim(emailData.body) # <<>>

\* sendEmail(accountId, emailData)
sendEmail(smtp, accountId, emailData) ==
    IF accountId \notin smtp
    THEN ServiceResult("sendEmail", accountId, FALSE, "Account not configured")
    ELSE IF ~validateEmailData(emailData)
    THEN ServiceResult("sendEmail", accountId, FALSE, "Invalid email data")
    ELSE ServiceResult("sendEmail", accountId, TRUE, "none")

\* fetchEmails(accountId, folder, options)
FetchEmails ==
    \E accountId \in 1..NumAccounts :
        ServiceReturns(
            IF accountId \notin imapConnections
            THEN ServiceResult("fetchEmails", accountId, FALSE, "Account not configured")
            ELSE ServiceResult("fetchEmails", accountId, TRUE, "none"))

SendEmail ==
    \E accountId \in 1..NumAccounts, emailData \in Emails :
        ServiceReturns(sendEmail(smtpConnections, accountId, emailData))

\* getFolders(accountId)
GetFolders ==
    \E accountId \in 1..NumAccounts :
        ServiceReturns(
            IF accountId \notin imapConnections
            THEN ServiceResult("getFolders", accountId, FALSE, "Account not configured")
            ELSE ServiceResult("getFolders", accountId, TRUE, "none"))

\* searchEmails(accountId, searchCriteria): accountId is logged and not
\* looked up.
SearchEmails ==
    \E accountId \in 1..NumAccounts :
        ServiceReturns(ServiceResult("searchEmails", accountId, TRUE, "none"))

\* disconnectAccount(accountId)
DisconnectAccount ==
    \E accountId \in 1..NumAccounts :
        /\ imapConnections' = imapConnections \ {accountId}
        /\ smtpConnections' = smtpConnections \ {accountId}
        /\ serviceResult' = ServiceResult("disconnectAccount", accountId, TRUE, "none")
        /\ UNCHANGED <<sendCall, emails, storeOp, poolVars, kmeVars, secVars,
                       engineVars>>

ServiceNext ==
    \/ ConfigureAccount
    \/ FetchEmails
    \/ SendEmail
    \/ GetFolders
    \/ SearchEmails
    \/ DisconnectAccount

(***************************************************************************)
(* src/src/stores/appStore.js: state.emails and the actions on it. An      *)
(* email of the store is [id, read]; the ids of the emails added are       *)
(* message ids, each made once.                                            *)
(***************************************************************************)
Folders == {"inbox", "sent", "drafts", "trash"}

\* The number of emails in all folders.
StoredCount(store) ==
    Len(store["inbox"]) + Len(store["sent"]) + Len(store["drafts"])
        + Len(store["trash"])

\* An id no email of the store has.
FreshId(store) ==
    LET ids == UNION {{store[f][i].id : i \in DOMAIN store[f]} : f \in Folders}
    IN  CHOOSE n \in 1..(Cardinality(ids) + 1) : n \notin ids

StoreOp(op, emailId, fromFolder, toFolder) ==
    [op |-> op, emailId |-> emailId, fromFolder |-> fromFolder, toFolder |-> toFolder]

\* addEmail(email, folder)
addEmail(store, email, folder) == [store EXCEPT ![folder] = Append(@, email)]

\* moveEmail(emailId, fromFolder, toFolder): in the object literal the
\* property [toFolder] is written after [fromFolder] and replaces it when
\* the two are one folder.
moveEmail(store, emailId, fromFolder, toFolder) ==
    LET found == SelectSeq(store[fromFolder], LAMBDA e : e.id = emailId)
    IN  IF found = <<>> THEN store
        ELSE [f \in Folders |->
                 IF f = toFolder THEN Append(store[toFolder], found[1])
                 ELSE IF f = fromFolder
                 THEN SelectSeq(store[fromFolder], LAMBDA e : e.id # emailId)
                 ELSE store[f]]

StoreSets(op, store) ==
    /\ emails' = store
    /\ storeOp' = op
    /\ UNCHANGED <<imapConnections, smtpConnections, serviceResult, sendCall,
                   poolVars, kmeVars, secVars, engineVars>>

AddEmail ==
    \E folder \in Folders :
        /\ StoredCount(emails) < MaxEmails
        /\ StoreSets(StoreOp("addEmail", FreshId(emails), "none", folder),
                     addEmail(emails, [id |-> FreshId(emails), read |-> FALSE], folder))

\* updateEmail(emailId, updates), with updates = {read: true}
UpdateEmail ==
    \E emailId \in 1..MaxEmails :
        StoreSets(StoreOp("updateEmail", emailId, "none", "none"),
                  [f \in Folders |->
                      [i \in DOMAIN emails[f] |->
                          IF emails[f][i].id = emailId
                          THEN [emails[f][i] EXCEPT !.read = TRUE]
                          ELSE emails[f][i]]])

\* deleteEmail(emailId)
DeleteEmail ==
    \E emailId \in 1..MaxEmails :
        StoreSets(StoreOp("deleteEmail", emailId, "none", "none"),
                  [f \in Folders |-> SelectSeq(emails[f], LAMBDA e : e.id # emailId)])

\* The store of the model holds MaxEmails emails, or one more.
MoveEmail ==
    \E emailId \in 1..MaxEmails, fromFolder \in Folders, toFolder \in Folders :
        /\ StoredCount(emails) <= MaxEmails
        /\ StoreSets(StoreOp("moveEmail", emailId, fromFolder, toFolder),
                     moveEmail(emails, emailId, fromFolder, toFolder))

StoreNext == AddEmail \/ UpdateEmail \/ DeleteEmail \/ MoveEmail

(***************************************************************************)
(* src/src/components/Email/EmailComposer.jsx: handleSend, over the        *)
(* engine, the email service and the store above.                          *)
(***************************************************************************)
\* handleSend(), for a composer that holds emailData with a recipient, the
\* tier selectedSecurityLevel, and the current account accountId. It
\* returns before anything else when the subject or the body is blank.
HandleSend ==
    \E emailData \in Emails, selectedSecurityLevel \in Tiers, accountId \in 1..NumAccounts,
       gap \in 0..1,
       tape \in {<<r1, r2>> : r1 \in Rnds, r2 \in Rnds} \ {<<r, r>> : r \in Rnds} :
        LET Sends(finalEmailData, sendResult) ==
                /\ sendCall' = [called |-> TRUE, sent |-> TRUE,
                                securityLevel |-> selectedSecurityLevel,
                                email |-> finalEmailData]
                /\ serviceResult' = sendResult
                /\ emails' = IF sendResult.success
                             THEN addEmail(emails,
                                           [id |-> FreshId(emails), read |-> TRUE],
                                           "sent")
                             ELSE emails
                /\ storeOp' = IF sendResult.success
                              THEN StoreOp("addEmail", FreshId(emails), "none", "sent")
                              ELSE storeOp
            AfterEncryption(r) ==
                /\ composed' = emailData
                /\ encryptionResult' = r.result
                /\ console' = r.console
                /\ kme' = r.k
                /\ now' = r.t
                /\ IF r.result.success
                   THEN Sends(r.result.email,
                              sendEmail(smtpConnections, accountId, r.result.email))
                   ELSE /\ sendCall' = [called |-> TRUE, sent |-> FALSE,
                                        securityLevel |-> selectedSecurityLevel,
                                        email |-> NoEmail]
                        /\ UNCHANGED <<serviceResult, emails, storeOp>>
        IN  /\ ~sendCall.called
            /\ Trim(emailData.subject) # <<>>
            /\ Trim(emailData.body) # <<>>
            /\ IF selectedSecurityLevel # "no_quantum"
               THEN AfterEncryption(
                        encryptEmail(kmMode, kme, saeId, currentSecurityLevel,
                                     emailData, selectedSecurityLevel, now, gap, tape))
               ELSE /\ Sends(emailData, sendEmail(smtpConnections, accountId, emailData))
                    /\ UNCHANGED <<composed, encryptionResult, console, kme, now>>
            /\ UNCHANGED <<imapConnections, smtpConnections, receivedEmail,
                           decryptionResult, decryptCount, progress, kmeReq, kmeResp,
                           kmeCount, poolVars, secVars>>

ComposerNext == ConfigureAccount \/ HandleSend \/ Tick

AppInit ==
    /\ imapConnections = {}
    /\ smtpConnections = {}
    /\ serviceResult = ServiceResult("none", 0, FALSE, "none")
    /\ sendCall = [called |-> FALSE, securityLevel |-> "none", sent |-> FALSE,
                   email |-> NoEmail]
    /\ emails = [f \in Folders |-> <<>>]
    /\ storeOp = StoreOp("none", 0, "none", "none")

(***************************************************************************)
(* Specifications. Each starts one part of the program and holds the       *)
(* others in one state.                                                    *)
(***************************************************************************)
InitKeyPool == PoolInit /\ KmeIdle /\ SecIdle /\ EngineInit /\ AppInit

InitKME == PoolInit /\ KmeInit /\ SecIdle /\ EngineInit /\ AppInit

InitSecurity == PoolInit /\ KmeIdle /\ SecInit /\ EngineInit /\ AppInit

InitEngine == PoolInit /\ KmeIdle /\ SecInit /\ EngineInit /\ AppInit

\* The key pool of src/unnamed/part_002 under any sequence of requests.
SpecKeyPool == InitKeyPool /\ [][PoolNext]_vars

\* The same pool under concurrent single-key OTP requests.
SpecOtpRace == InitKeyPool /\ [][RaceNext]_vars

\* The key manager of email-server.js under any sequence of requests.
SpecKME == InitKME /\ [][KmeNext]_vars

\* SecurityService over KMService and the key manager.
SpecSecurity == InitSecurity /\ [][SecNext]_vars

\* EncryptionEngine over SecurityService: one email from composer to reader.
SpecEngine == InitEngine /\ [][EngineNext]_vars

\* The quantum-aided AES tier with a ciphertext altered in transit.
SpecTamper == InitSecurity /\ [][TamperNext]_vars

\* A client whose key manager answers, refuses (no SAE id) or is not there.
InitOutage ==
    /\ PoolInit
    /\ KmeIdle
    /\ \E m \in {<<"remote", "saeA">>, <<"remote", NoSae>>,
                  <<"unreachable", "saeA">>} :
          kmMode = m[1] /\ saeId = m[2]
    /\ currentSecurityLevel = "quantum_secure"
    /\ payloads = <<>>
    /\ plains = <<>>
    /\ lastOp = NoOp
    /\ tampered = {}
    /\ EngineInit
    /\ AppInit

\* encryptData with and without a key manager that answers.
SpecOutage == InitOutage /\ [][OutageNext]_vars

\* The one-time-pad tier alone, over several messages.
SpecOtp == InitSecurity /\ [][OtpNext]_vars

\* The client given security levels that are none of the four.
SpecTier == InitSecurity /\ [][TierNext]_vars

\* The email service under any sequence of calls.
SpecEmailService == InitKeyPool /\ [][ServiceNext]_vars

\* The emails of the store under any sequence of its actions.
SpecStore == InitKeyPool /\ [][StoreNext]_vars

\* One handleSend of the composer, with accounts configured or not.
SpecComposer == InitEngine /\ [][ComposerNext]_vars

\* One call of encryptEmail, await by await, beside setSecurityLevel.
SpecEnvelope == InitEngine /\ [][EnvelopeNext]_vars

(***************************************************************************)
(* Properties of the key pool (src/unnamed/part_002).                      *)
(***************************************************************************)
UnusedIds(db) == {i \in 1..Len(db) : ~db[i].used}

\* C1: a request for more keys than qualify (number > the count of unused
\* keys of the requested type with keySize >= size) is answered
\* INSUFFICIENT_KEYS with available = that count and requested = number, and
\* every key that was unused before the request is still unused after it.
C1_InsufficientKeysLeavesPool ==
    [][LET q     == lastRequest'
           avail == AvailableKeys(keyDatabase, q.type, q.size)
       IN  q.number > Len(avail) =>
             /\ lastResponse'.status = 409
             /\ lastResponse'.error = "INSUFFICIENT_KEYS"
             /\ lastResponse'.available = Len(avail)
             /\ lastResponse'.requested = q.number
             /\ lastResponse'.keys = <<>>
             /\ UnusedIds(keyDatabase') = UnusedIds(keyDatabase)
             /\ keyDatabase' = keyDatabase]_vars

\* A refused request that left matching keys behind: the pool still holds
\* the available keys the response counted, and they are fewer than asked.
C1_Witness ==
    /\ lastResponse.error = "INSUFFICIENT_KEYS"
    /\ lastResponse.available >= 1
    /\ lastResponse.requested > lastResponse.available
    /\ Len(AvailableKeys(keyDatabase, lastRequest.type, lastRequest.size))
         = lastResponse.available

Succeeded == {c \in 1..NumClients : clientResp[c].status = 200}
Refused == {c \in 1..NumClients : clientResp[c].error = "INSUFFICIENT_KEYS"}
RaceDone == \A c \in 1..NumClients : clientResp[c].status # 0
PoolSize == Len(AvailableKeys(initializeKeys, "otp", 256))

\* C2: in every interleaving of N single-key OTP requests against a pool of
\* M < N matching keys, no key_ID is in two successful responses, and once
\* all requests are answered exactly M succeeded and N - M were refused
\* with INSUFFICIENT_KEYS.
C2_NoDoubleAllocation ==
    /\ \A c \in Succeeded : Len(clientResp[c].keys) = 1
    /\ \A c, d \in Succeeded :
          c # d => clientResp[c].keys[1] # clientResp[d].keys[1]
    /\ (RaceDone /\ PoolSize < NumClients) =>
          /\ Cardinality(Succeeded) = PoolSize
          /\ Cardinality(Refused) = NumClients - PoolSize
          /\ \A c \in Refused : clientResp[c].available = 0

\* All requests answered, the pool exhausted, and some request refused.
C2_Witness ==
    /\ RaceDone
    /\ PoolSize < NumClients
    /\ Cardinality(Succeeded) = PoolSize
    /\ Refused # {}

\* C3: no two encryptions record the same quantumKeyId, requests of one SAE
\* at the same clock instant included. Stated for the client of the key
\* manager of email-server.js, whose ids hold no random part.
C3_NoKeyIdReuse ==
    kmMode = "remote" =>
        \A i, j \in 1..Len(payloads) :
            i # j => payloads[i].quantumKeyId # payloads[j].quantumKeyId

\* C4: under any sequence of key-manager requests, a key id that is consumed
\* stays stored as consumed in both Maps, with the material it had.
C4_ConsumedIsTerminal ==
    [][\A id \in DOMAIN kme.db :
          kme.db[id].status = "consumed" =>
              /\ id \in DOMAIN kme'.db
              /\ kme'.db[id].status = "consumed"
              /\ kme'.status[id] = "consumed"
              /\ kme'.db[id].key = kme.db[id].key]_vars

\* C5: decrypting the payload of a successful OTP encryption of a non-empty
\* plaintext P succeeds and returns exactly P.
C5_OtpRoundTrip ==
    (/\ lastOp.op = "decrypt"
     /\ payloads[lastOp.idx].algorithm = "OTP"
     /\ plains[lastOp.idx] # <<>>)
        => (lastOp.ok /\ lastOp.data = plains[lastOp.idx])

\* The bytes of the key generateOTPKeys obtains for data, in the present
\* state of the key manager.
OtpKeyFor(data, rnd) ==
    LET g == generateOTPKeys(kmMode, kme, saeId, 8 * Len(Utf8Encode(data)), now, rnd)
    IN  [ok |-> g.ok /\ g.key.key # <<>> /\ base64ToBytes(g.key.key).ok,
         bytes |-> base64ToBytes(g.key.key).bytes]

\* C6: whenever the key material obtained is shorter than the plaintext,
\* encryptWithOTP throws and produces no ciphertext; a failed call stores no
\* payload, and every OTP ciphertext is as long as its plaintext, which
\* is therefore never truncated.
C6_ShortKeyRejected ==
    /\ \A data \in Plaintexts, rnd \in Rnds :
          LET key == OtpKeyFor(data, rnd)
              r   == encryptWithOTP(kmMode, kme, saeId, data, now, rnd)
          IN  (key.ok /\ Len(key.bytes) < Len(Utf8Encode(data)))
                  => (/\ ~r.ok
                      /\ r.error = "Quantum key too short for OTP encryption"
                      /\ r.payload = NoPayload)
    /\ (lastOp.op = "encrypt" /\ ~lastOp.ok) => lastOp.idx = 0
    /\ Len(payloads) = Len(plains)
    /\ \A i \in 1..Len(payloads) :
          payloads[i].algorithm = "OTP" =>
              LET c == base64ToBytes(payloads[i].encryptedData)
              IN  /\ c.ok
                  /\ Len(c.bytes) = Len(Utf8Encode(plains[i]))
                  /\ payloads[i].originalSize = Len(Utf8Encode(plains[i]))

\* An encryption of the 33-byte text was refused because the key manager's
\* key, capped at 256 bits, is shorter; nothing was stored for it.
C6_Witness ==
    /\ lastOp.op = "encrypt"
    /\ ~lastOp.ok
    /\ lastOp.error = "Quantum key too short for OTP encryption"
    /\ lastOp.input = LongText
    /\ Len(payloads) = 1
    /\ plains[1] # LongText

\* C7: for each of the four tiers and every plaintext P, the empty one
\* included, decryptData(encryptData(P, tier)) returns P.
C7_TierRoundTrip ==
    lastOp.op = "decrypt" => (lastOp.ok /\ lastOp.data = plains[lastOp.idx])


\* The attachments whose encryption threw in the engine's last call.
FailedToEncrypt ==
    {console[i].filename : i \in {j \in 1..Len(console) :
                                     console[j].event = "Failed to encrypt attachment"}}

\* C8: when the encryption of an attachment throws, encryptEmail succeeds,
\* subject and body are encrypted, and the envelope lists the attachments
\* of the input in their order: the failing one with its original data,
\* encrypted = false and an encryptionError, every other one encrypted.
C8_AttachmentFailureIsLocal ==
    FailedToEncrypt # {} =>
        LET e == encryptionResult.email
        IN  /\ encryptionResult.success
            /\ StartsWith(e.subject, EncryptedTag)
            /\ e.components.subject.present
            /\ e.components.subject.securityLevel = e.securityLevel
            /\ Includes(e.body, BodyMarker)
            /\ e.components.body.present
            /\ e.components.body.securityLevel = e.securityLevel
            /\ Len(e.attachments) = Len(composed.attachments)
            /\ \A i \in 1..Len(composed.attachments) :
                  i <= Len(e.attachments) =>
                  LET a == e.attachments[i]
                      o == composed.attachments[i]
                  IN  /\ a.filename = o.filename
                      /\ IF o.filename \in FailedToEncrypt
                         THEN /\ a.data = o.data
                              /\ a.isBuffer = o.isBuffer
                              /\ ~a.encrypted
                              /\ a.encryptionError # "none"
                         ELSE /\ a.encrypted
                              /\ a.metadata.present
                              /\ a.encryptionError = "none"
                              /\ a.data # o.data

\* Of three attachments the second, a text of 33 bytes, was refused by the
\* one-time pad and is carried as it was; the first and the third are
\* encrypted.
C8_Witness ==
    /\ encryptionResult.success
    /\ FailedToEncrypt = {"b"}
    /\ Len(encryptionResult.email.attachments) = 3
    /\ encryptionResult.email.attachments[1].encrypted
    /\ encryptionResult.email.attachments[2].data = LongText
    /\ encryptionResult.email.attachments[2].encryptionError =
           "Quantum key too short for OTP encryption"
    /\ encryptionResult.email.attachments[3].encrypted

\* C9: in decryptEmail the failure of one part, a part whose metadata is
\* missing included, leaves the call successful and the number of
\* attachments unchanged. Stated for an envelope with one attachment that
\* carries its encryptionMetadata and the metadata of subject and body.
C9_PartFailureIsLocal ==
    (/\ decryptionResult.called
     /\ receivedEmail.encrypted
     /\ receivedEmail.hasMetadata
     /\ receivedEmail.components.subject.present
     /\ receivedEmail.components.body.present
     /\ Len(receivedEmail.attachments) = 1)
        => /\ decryptionResult.success
           /\ Len(decryptionResult.email.attachments) = 1

\* C10: decryptEmail of the envelope encryptEmail returned gives back the
\* subject of the email that was encrypted.
C10_SubjectRoundTrip ==
    (/\ decryptionResult.called
     /\ encryptionResult.success
     /\ receivedEmail = encryptionResult.email)
        => /\ decryptionResult.success
           /\ decryptionResult.email.subject = composed.subject

\* C11: decryptEmail of the envelope encryptEmail returned gives back the
\* body of the email that was encrypted: the ciphertext is read back out of
\* the HTML wrapper and the envelope's metadata suffices to decrypt it.
C11_BodyRoundTrip ==
    (/\ decryptionResult.called
     /\ encryptionResult.success
     /\ receivedEmail = encryptionResult.email)
        => /\ decryptionResult.success
           /\ decryptionResult.email.body = composed.body

\* The attachments of the envelope that were encrypted and that decryptEmail
\* decrypted without an error.
RoundTripped ==
    {i \in 1..Len(decryptionResult.email.attachments) :
        /\ receivedEmail.attachments[i].encrypted
        /\ ~decryptionResult.email.attachments[i].encrypted
        /\ decryptionResult.email.attachments[i].decryptionError = "none"}

\* C12: an attachment that was encrypted and then decrypted without an error
\* has the data it had before, of the same type (ArrayBuffer or string) and
\* with the same bytes, whatever its content type.
C12_AttachmentRoundTrip ==
    (/\ decryptionResult.called
     /\ decryptionResult.success
     /\ encryptionResult.success
     /\ receivedEmail = encryptionResult.email)
        => \A i \in RoundTripped :
              /\ decryptionResult.email.attachments[i].data
                    = composed.attachments[i].data
              /\ decryptionResult.email.attachments[i].isBuffer
                    = composed.attachments[i].isBuffer

\* C13: encryptEmail of an email whose subject or body is the empty string
\* succeeds, and decryptEmail of the envelope gives the empty string back
\* for that field.
C13_EmptyPartsEncrypt ==
    /\ (/\ encryptionResult.called
        /\ (composed.subject = <<>> \/ composed.body = <<>>))
          => encryptionResult.success
    /\ (/\ decryptionResult.called
        /\ encryptionResult.success
        /\ receivedEmail = encryptionResult.email)
          => /\ composed.subject = <<>> =>
                    /\ decryptionResult.success
                    /\ decryptionResult.email.subject = <<>>
             /\ composed.body = <<>> =>
                    /\ decryptionResult.success
                    /\ decryptionResult.email.body = <<>>

\* C14: in every envelope encryptEmail returns, the securityLevel recorded
\* for the subject, for the body and for every encrypted attachment is the
\* envelope's securityLevel, also when setSecurityLevel ran between two
\* parts.
C14_OneTierPerEnvelope ==
    encryptionResult.success =>
        /\ encryptionResult.email.components.subject.securityLevel
              = encryptionResult.email.securityLevel
        /\ encryptionResult.email.components.body.securityLevel
              = encryptionResult.email.securityLevel
        /\ \A i \in 1..Len(encryptionResult.email.attachments) :
              encryptionResult.email.attachments[i].encrypted =>
                 /\ encryptionResult.email.attachments[i].metadata.securityLevel
                       = encryptionResult.email.securityLevel
                 /\ encryptionResult.email.components.attachments.list[i].securityLevel
                       = encryptionResult.email.securityLevel

C14_Witness ==
    /\ encryptionResult.success
    /\ progress.interrupted
    /\ currentSecurityLevel # encryptionResult.email.securityLevel
    /\ Len(encryptionResult.email.attachments) = 3
    /\ \A i \in 1..3 : encryptionResult.email.attachments[i].encrypted

\* C15: a payload encryptData returns is of the tier the caller specified,
\* as an option or as a security level from 1 to 4.
C15_RequestedTierApplied ==
    (lastOp.op = "encrypt" /\ lastOp.ok /\ lastOp.requested # "none")
        => payloads[lastOp.idx].securityLevel = lastOp.requested

\* C16: for a payload that carries a tier, decryptData does the same
\* whatever tier the caller passes in options: it returns what it returns
\* without the option and leaves the key manager in the same state.
C16_PayloadTierDecides ==
    \A i \in 1..Len(payloads), opt \in Tiers, rnd \in Rnds :
        payloads[i].securityLevel # "none" =>
            decryptData(kmMode, kme, saeId, payloads[i], opt, now, rnd)
                = decryptData(kmMode, kme, saeId, payloads[i], "none", now, rnd)

C16_Witness ==
    /\ lastOp.op = "decrypt"
    /\ lastOp.requested \in Tiers
    /\ lastOp.requested # payloads[lastOp.idx].securityLevel
    /\ payloads[lastOp.idx].securityLevel = "quantum_secure"
    /\ lastOp.ok
    /\ lastOp.data = plains[lastOp.idx]

\* The key manager does not answer, or refuses the client's requests.
KmDown == kmMode = "unreachable" \/ (kmMode = "remote" /\ saeId = NoSae)

\* The tier the last call of encryptData asked for.
AskedTier ==
    IF lastOp.requested # "none" THEN lastOp.requested ELSE currentSecurityLevel

\* C18: while the key manager is unreachable or answers with an error,
\* encryptData at quantum_secure or quantum_aes throws and returns no
\* payload, so that no payload of these tiers exists; and a payload
\* encryptData returns is never of another tier than the one asked for.
C18_NoSilentDegradation ==
    /\ (/\ lastOp.op = "encrypt"
        /\ KmDown
        /\ AskedTier \in {"quantum_secure", "quantum_aes"})
          => /\ ~lastOp.ok
             /\ lastOp.error # "none"
             /\ lastOp.idx = 0
    /\ KmDown
          => \A i \in 1..Len(payloads) :
                 payloads[i].securityLevel \notin {"quantum_secure", "quantum_aes"}
    /\ (lastOp.op = "encrypt" /\ lastOp.ok)
          => payloads[lastOp.idx].securityLevel = AskedTier

C18_Witness ==
    /\ lastOp.op = "encrypt"
    /\ kmMode = "unreachable"
    /\ lastOp.requested = "quantum_aes"
    /\ lastOp.input = <<65>>
    /\ ~lastOp.ok
    /\ payloads = <<>>

\* C17: decrypting a payload whose key id the key manager does not hold
\* fails with an error and returns no plaintext.
C17_UnknownKeyFails ==
    (/\ lastOp.op = "decrypt"
     /\ payloads[lastOp.idx].hasKeyId
     /\ payloads[lastOp.idx].quantumKeyId \notin DOMAIN kme.db)
        => /\ ~lastOp.ok
           /\ lastOp.error # "none"
           /\ lastOp.data = <<>>

C20_RedecryptIdempotent ==
    [][(/\ lastOp.op = "decrypt"
        /\ lastOp.ok
        /\ lastOp'.op = "decrypt"
        /\ lastOp'.idx = lastOp.idx
        /\ payloads' = payloads)
          => /\ lastOp'.ok
             /\ lastOp'.data = lastOp.data
             /\ kme' = kme]_vars

(***************************************************************************)
(* Properties of the key records over a message's life.                    *)
(***************************************************************************)
\* C21: with the key manager of email-server.js, right after a successful
\* one-time-pad encryption the key record the payload names is consumed,
\* and no call of decryptData changes the status of a key record.
C21_ConsumedAtEncryption ==
    [][/\ (/\ kmMode = "remote"
           /\ lastOp'.op = "encrypt"
           /\ lastOp'.ok
           /\ payloads' # payloads)
             => LET keyId == payloads'[lastOp'.idx].quantumKeyId
                IN  /\ keyId \in DOMAIN kme'.status
                    /\ kme'.status[keyId] = "consumed"
                    /\ kme'.db[keyId].status = "consumed"
       /\ (kmMode = "remote" /\ lastOp'.op = "decrypt" /\ payloads' = payloads)
             => kme'.status = kme.status]_vars

\* C22: GET /api/v1/keys/:key_ID answers with a key that enc_keys issued
\* only when the sae_id of the request is the master or the slave SAE the
\* key was issued for.
C22_FetchOnlyByAuthorized ==
    (kmeReq.endpoint = "key_ID" /\ kmeResp.code = 200)
        => \A i \in 1..Len(kmeResp.keys) :
               kmeResp.keys[i].master_sae_id # NoSae
                   => kmeReq.sae \in {kmeResp.keys[i].master_sae_id,
                                      kmeResp.keys[i].slave_sae_id}

\* C23: every key the key manager returns for a request of size bits holds
\* at least size bits of material.
C23_KeyCoversRequestedSize ==
    (kmeReq.endpoint \in {"enc_keys", "generate"} /\ kmeResp.code = 200)
        => \A i \in 1..Len(kmeResp.keys) :
               Len(Atob(kmeResp.keys[i].key).bytes) * 8 >= kmeReq.size

\* C24: the number of available keys that GET /api/v1/status reports is the
\* number of key records whose status is "available".
C24_StatusCountsAvailableKeys ==
    kmeReq.endpoint = "status"
        => kmeResp.available_keys
             = Cardinality({id \in DOMAIN kme.status : kme.status[id] = "available"})

\* C25: the default tier is always one of the four, and encryptData and
\* decryptData given a tier that is none of the four throw "Unsupported
\* security level" and return nothing.
C25_InvalidTierRejected ==
    /\ currentSecurityLevel \in Tiers
    /\ (lastOp.op \in {"encrypt", "decrypt"} /\ lastOp.requested \notin Tiers \cup {"none"})
          => /\ ~lastOp.ok
             /\ lastOp.error = "Unsupported security level"
             /\ lastOp.data = <<>>
             /\ lastOp.op = "encrypt" => lastOp.idx = 0

\* C26: with the key manager of email-server.js, decryptData of a
\* one-time-pad payload whose stored key is shorter than its ciphertext
\* throws and returns no text.
C26_ShortKeyRejectedAtDecrypt ==
    (/\ kmMode = "remote"
     /\ lastOp.op = "decrypt"
     /\ payloads[lastOp.idx].securityLevel = "quantum_secure"
     /\ payloads[lastOp.idx].quantumKeyId \in DOMAIN kme.db
     /\ Len(Atob(kme.db[payloads[lastOp.idx].quantumKeyId].key).bytes)
            < Len(Atob(payloads[lastOp.idx].encryptedData).bytes))
        => /\ ~lastOp.ok
           /\ lastOp.data = <<>>

\* C27: a successful enc_keys or otp_keys request for number keys returns
\* number distinct keys that were unused, of the requested type and of at
\* least the requested size, marks exactly those used, and leaves every
\* other record as it was.
C27_ReserveMarksExactlyReturned ==
    [][(requestCount' = requestCount + 1 /\ lastResponse'.status = 200)
          => LET keys == lastResponse'.keys
                 ids  == {keys[j] : j \in 1..Len(keys)}
             IN  /\ Len(keys) = lastRequest'.number
                 /\ Cardinality(ids) = lastRequest'.number
                 /\ Len(keyDatabase') = Len(keyDatabase)
                 /\ \A i \in 1..Len(keyDatabase) :
                        IF i \in ids
                        THEN /\ ~keyDatabase[i].used
                             /\ keyDatabase[i].keyType = lastRequest'.type
                             /\ keyDatabase[i].keySize >= lastRequest'.size
                             /\ keyDatabase'[i] = [keyDatabase[i] EXCEPT !.used = TRUE]
                        ELSE keyDatabase'[i] = keyDatabase[i]]_vars

C27_Witness ==
    /\ lastResponse.status = 200
    /\ lastRequest.type = "otp"
    /\ Len(lastResponse.keys) = 2
    /\ \E i \in 1..Len(keyDatabase) :
           /\ keyDatabase[i].used
           /\ keyDatabase[i].keyType = "otp"
           /\ \A j \in 1..2 : lastResponse.keys[j] # i
    /\ \E i \in 1..Len(keyDatabase) :
           keyDatabase[i].used /\ keyDatabase[i].keyType = "encryption"

(***************************************************************************)
(* Properties of the composer, the email service and the store.            *)
(***************************************************************************)
\* C28: for each of the four tiers, the email handleSend gives to sendEmail
\* is the encrypted email the engine returned for that tier, and never the
\* email as it was composed.
C28_OnlyEncryptedEmailIsSent ==
    sendCall.sent
        => /\ sendCall.email.encrypted
           /\ sendCall.email.securityLevel = sendCall.securityLevel
           /\ encryptionResult.success
           /\ sendCall.email = encryptionResult.email

\* C29: fetchEmails, sendEmail, getFolders and searchEmails succeed only for
\* an account id that configureAccount registered and disconnectAccount has
\* not removed since.
C29_OnlyConfiguredAccountsServed ==
    (/\ serviceResult.op \in {"fetchEmails", "sendEmail", "getFolders", "searchEmails"}
     /\ serviceResult.success)
        => /\ serviceResult.accountId \in imapConnections
           /\ serviceResult.accountId \in smtpConnections

\* The number of emails with the id in the sequence.
CountOf(list, emailId) == Len(SelectSeq(list, LAMBDA e : e.id = emailId))

\* C30: moveEmail(emailId, fromFolder, toFolder) of an email that is in
\* fromFolder leaves it in toFolder once and in no other folder, with as
\* many emails stored as before; of an email that is not in fromFolder, it
\* leaves the store as it was.
C30_MovePreservesEmails ==
    [][(storeOp'.op = "moveEmail" /\ (storeOp' # storeOp \/ emails' # emails))
          => IF CountOf(emails[storeOp'.fromFolder], storeOp'.emailId) > 0
             THEN /\ CountOf(emails'[storeOp'.toFolder], storeOp'.emailId) = 1
                  /\ \A f \in Folders \ {storeOp'.toFolder} :
                         CountOf(emails'[f], storeOp'.emailId) = 0
                  /\ StoredCount(emails') = StoredCount(emails)
             ELSE emails' = emails]_vars

====
